---- MODULE Spec2Model ----
(***************************************************************************)
(* Storage allocation of sc_custom (api/pick_list_storage.py).             *)
(*                                                                         *)
(* Quantities are integers (the code converts with float()); Python's None,*)
(* a missing key and the empty string are the value None.  Python list     *)
(* indexes are 0-based and kept so (storage_idx, idx); TLA+ sequences are  *)
(* 1-based, hence the "+ 1" where a list is subscripted.                   *)
(***************************************************************************)
EXTENDS Integers, Sequences, FiniteSets, TLC

None == "None"

\* Bounds of the model.
MaxRows == 2
MaxSLE == 2
MaxData == 3
MaxSerials == 2

VARIABLES
    sle,                  \* tabStock Ledger Entry, in creation order
    fn,                   \* the whitelisted function being called
    work_order,           \* argument of get_storage_for_work_order_items
    locations,            \* the rows passed in (locations_json / items_json)
    pc,                   \* position in the call
    warehouse_groups,     \* dict key -> group, in insertion order
    gi,                   \* number of groups already processed
    storage_locations,    \* result of get_available_storage_locations
    storage_idx,
    remaining_in_storage,
    ri,                   \* number of rows of the group already processed
    qty_needed,
    allocations,
    allocated_storage,
    result,
    db,                   \* the database engine ("mariadb" or "postgres")
    batches,              \* tabBatch: name -> row
    serial_nos,           \* tabSerial No, in creation order
    based_on,             \* Stock Settings pick_serial_and_batch_based_on
    ranker,               \* the candidate function being called
    arg_item,             \* the item_code argument of the candidate function
    arg_qty,              \* its required_qty argument
    priority_warehouses,  \* a list of warehouses; <<>> is None or []
    exclude_warehouses,   \* a warehouse or None
    data,                 \* argument of _prioritize_warehouses
    ranked,               \* the list a candidate function returned
    reranked,             \* the list it returned when called again
    purpose,              \* argument of get_available_stock_for_items
    wo_items,             \* tabWork Order Item rows of work_order
    arg_warehouse,        \* warehouse argument of a direct call
    default_wip_storage,  \* Manufacturing Settings, default_wip_storage
    default_fg_storage,   \* Manufacturing Settings, default_fg_storage
    doc,                  \* the Stock Entry being validated
    doc_before,           \* the Stock Entry as the handler received it
    pick_list_items,      \* tabPick List Item rows of doc.pick_list, by idx
    thrown                \* frappe.throw was called

rankVars == <<db, batches, serial_nos, based_on, ranker, arg_item,
              arg_qty, priority_warehouses, exclude_warehouses, data,
              ranked, reranked>>

entryVars == <<default_fg_storage, doc, doc_before, pick_list_items, thrown>>

stockVars == <<purpose, wo_items, arg_warehouse, default_wip_storage,
               entryVars>>

\* No Stock Entry is being validated.
EntryIdle ==
    /\ default_fg_storage = None
    /\ doc = <<>>
    /\ doc_before = <<>>
    /\ pick_list_items = <<>>
    /\ thrown = FALSE

vars == <<sle, fn, work_order, locations, pc, warehouse_groups, gi,
          storage_locations, storage_idx, remaining_in_storage, ri,
          qty_needed, allocations, allocated_storage, result, rankVars,
          stockVars>>

cursorVars == <<storage_locations, storage_idx, remaining_in_storage, ri,
                qty_needed, allocations, allocated_storage>>

inputVars == <<sle, fn, work_order, locations, rankVars, stockVars>>

groupedVars == <<fn, work_order, locations, warehouse_groups, gi, cursorVars,
                 stockVars>>

-----------------------------------------------------------------------------
(* Helpers on sequences and sets of integers.                              *)

MinOf(S) == CHOOSE x \in S : \A y \in S : x <= y

Min2(a, b) == IF a <= b THEN a ELSE b

SeqsUpTo(S, n) == UNION {[1..k -> S] : k \in 0..n}

\* Lexicographic order on tuples of integers of one length: ORDER BY on
\* several columns.
RECURSIVE KeyLess(_, _)
KeyLess(a, b) ==
    /\ a # <<>>
    /\ \/ Head(a) < Head(b)
       \/ Head(a) = Head(b) /\ KeyLess(Tail(a), Tail(b))

\* ORDER BY ... DESC is ORDER BY on the negated columns.
NegKey(k) == [i \in DOMAIN k |-> 0 - k[i]]

-----------------------------------------------------------------------------
(* The Stock Ledger Entry table.                                           *)

Items == {"I1"}
Warehouses == {"W1", "W2"}
Storages == {"S1", "S2"}

\* A ledger entry: bundle holds the Serial and Batch Entry rows of its
\* serial_and_batch_bundle, serial_no its serial_no column.
SLE(item, wh, st, qty, date, cancelled) ==
    [item_code |-> item, warehouse |-> wh, storage |-> st, actual_qty |-> qty,
     posting_date |-> date, posting_time |-> 1,
     is_cancelled |-> cancelled, docstatus |-> IF cancelled = 1 THEN 2 ELSE 1,
     bundle |-> <<>>, serial_no |-> None]

\* The kinds of ledger entry the snapshots are made of: receipts into two
\* storages, a backdated receipt, an issue, another warehouse, a cancelled
\* entry.  MIN(creation) of an entry is its position in sle.
SLEUniverse ==
    { SLE("I1", "W1", "S1", 5, 2, 0),
      SLE("I1", "W1", "S2", 5, 2, 0),
      SLE("I1", "W1", "S2", 3, 1, 0),
      SLE("I1", "W1", "S1", -5, 2, 0),
      SLE("I1", "W2", "S1", 5, 2, 0),
      SLE("I1", "W1", "S1", 5, 2, 1) }

Ledgers == SeqsUpTo(SLEUniverse, MaxSLE)

-----------------------------------------------------------------------------
(* get_available_storage_locations                                         *)

\* WHERE clause of the query.
StorageQueryRows(item_code, warehouse) ==
    { i \in DOMAIN sle :
        /\ sle[i].item_code = item_code
        /\ sle[i].warehouse = warehouse
        /\ sle[i].storage # None
        /\ sle[i].is_cancelled = 0
        /\ sle[i].docstatus < 2 }

\* SUM(sle.actual_qty) over the ledger entries at the positions G.
RECURSIVE SumActualQty(_)
SumActualQty(G) ==
    IF G = {} THEN 0
    ELSE LET i == CHOOSE j \in G : TRUE
         IN sle[i].actual_qty + SumActualQty(G \ {i})

\* One GROUP BY row: SUM(actual_qty) and the ORDER BY key
\* (MIN(posting_date), MIN(posting_time), MIN(creation)).
GroupRow(I, st) ==
    LET G == {i \in I : sle[i].storage = st}
    IN [storage |-> st,
        available_qty |-> SumActualQty(G),
        key |-> << MinOf({sle[i].posting_date : i \in G}),
                   MinOf({sle[i].posting_time : i \in G}),
                   MinOf(G) >>]

\* The rows of a set ordered by key ascending (keys are distinct: MIN(creation)
\* is the position of an entry, and the groups are disjoint).
RECURSIVE OrderByKey(_)
OrderByKey(R) ==
    IF R = {} THEN <<>>
    ELSE LET m == CHOOSE r \in R : \A q \in R : q = r \/ KeyLess(r.key, q.key)
         IN <<m>> \o OrderByKey(R \ {m})

\* The query ordered newest first.
StorageDataNewestFirst(item_code, warehouse) ==
    LET I == StorageQueryRows(item_code, warehouse)
        R == {GroupRow(I, st) : st \in {sle[i].storage : i \in I}}
    IN OrderByKey({ [r EXCEPT !.key = NegKey(@)]
                      : r \in {x \in R : x.available_qty > 0} })

\* GROUP BY sle.storage HAVING available_qty > 0 ORDER BY ...
StorageData(item_code, warehouse) ==
    LET I == StorageQueryRows(item_code, warehouse)
        R == {GroupRow(I, st) : st \in {sle[i].storage : i \in I}}
    IN OrderByKey({r \in R : r.available_qty > 0})

\* The loop with line 72 changed to qty_to_pick = remaining_qty: a storage is
\* asked for more than it holds.
RECURSIVE PickLoopTakeAll(_, _, _)
PickLoopTakeAll(storage_data, remaining_qty, acc) ==
    IF storage_data = <<>> \/ remaining_qty <= 0 THEN acc
    ELSE LET row == Head(storage_data)
         IN IF row.available_qty <= 0
            THEN PickLoopTakeAll(Tail(storage_data), remaining_qty, acc)
            ELSE PickLoopTakeAll(Tail(storage_data), 0,
                                 Append(acc, [storage |-> row.storage,
                                              available_qty |-> row.available_qty,
                                              qty_to_pick |-> remaining_qty]))

\* The loop over storage_data (lines 61-80).
RECURSIVE PickLoop(_, _, _)
PickLoop(storage_data, remaining_qty, acc) ==
    IF storage_data = <<>> \/ remaining_qty <= 0 THEN acc
    ELSE LET row == Head(storage_data)
             available_qty == row.available_qty
             qty_to_pick == Min2(available_qty, remaining_qty)
         IN IF available_qty <= 0
            THEN PickLoop(Tail(storage_data), remaining_qty, acc)
            ELSE PickLoop(Tail(storage_data), remaining_qty - qty_to_pick,
                          Append(acc, [storage |-> row.storage,
                                       available_qty |-> available_qty,
                                       qty_to_pick |-> qty_to_pick]))

get_available_storage_locations(item_code, warehouse, required_qty) ==
    IF item_code = None \/ warehouse = None THEN <<>>
    ELSE IF required_qty <= 0 THEN <<>>
    ELSE PickLoop(StorageData(item_code, warehouse), required_qty, <<>>)

-----------------------------------------------------------------------------
(* The rows a caller passes in.  A row without 'stock_qty' (or 'qty') is a *)
(* row of quantity 0: both are falsy in Python.                            *)

Row(item, wh, q) == [item_code |-> item, warehouse |-> wh, qty |-> q]

RowQtys == {-3, 0, 4, 7}

RowUniverse ==
    {Row("I1", "W1", q) : q \in RowQtys}
        \cup {Row("I1", "W2", 4), Row(None, "W1", 4), Row("I1", None, 4)}

Requests == SeqsUpTo(RowUniverse, MaxRows)

\* f"{item_code}|||{warehouse}"
GroupKey(item_code, warehouse) == item_code \o "|||" \o warehouse

\* warehouse_groups[key]['rows'].append(...), creating the group first if the
\* key is new; a dict keeps its keys in insertion order.
AddToGroup(groups, item_code, warehouse, row_info) ==
    LET key == GroupKey(item_code, warehouse)
    IN IF \E k \in DOMAIN groups : groups[k].key = key
       THEN [k \in DOMAIN groups |->
                IF groups[k].key = key
                THEN [groups[k] EXCEPT !.rows = Append(@, row_info)]
                ELSE groups[k]]
       ELSE Append(groups, [key |-> key, item_code |-> item_code,
                            warehouse |-> warehouse, rows |-> <<row_info>>])

\* allocate_storage_for_pick_list, line 106:
\* not row.get('item_code') or not row.get('warehouse') or not row.get('stock_qty')
PickSkipsRow(row) ==
    row.item_code = None \/ row.warehouse = None \/ row.qty = 0

\* The grouping loop of allocate_storage_for_pick_list over rows[i..].
RECURSIVE PickGroups(_, _, _)
PickGroups(rows, i, groups) ==
    IF i > Len(rows) THEN groups
    ELSE IF PickSkipsRow(rows[i]) THEN PickGroups(rows, i + 1, groups)
    ELSE PickGroups(rows, i + 1,
                    AddToGroup(groups, rows[i].item_code, rows[i].warehouse,
                               [idx |-> i - 1, qty |-> rows[i].qty]))

\* The total changed to the first row's quantity alone.
GroupTotalFirstRow(rows) == IF rows = <<>> THEN 0 ELSE Head(rows).qty

\* sum(r['qty'] for r in group['rows'])
RECURSIVE GroupTotal(_)
GroupTotal(rows) ==
    IF rows = <<>> THEN 0 ELSE Head(rows).qty + GroupTotal(Tail(rows))

\* result.sort(key=lambda x: x['idx']): a stable insertion sort.
RECURSIVE InsertByIdx(_, _)
InsertByIdx(sorted, r) ==
    IF sorted = <<>> THEN <<r>>
    ELSE IF sorted[Len(sorted)].idx <= r.idx THEN Append(sorted, r)
    ELSE Append(InsertByIdx(SubSeq(sorted, 1, Len(sorted) - 1), r),
                sorted[Len(sorted)])

RECURSIVE SortByIdxFrom(_, _, _)
SortByIdxFrom(s, i, acc) ==
    IF i > Len(s) THEN acc ELSE SortByIdxFrom(s, i + 1, InsertByIdx(acc, s[i]))

SortByIdx(s) == SortByIdxFrom(s, 1, <<>>)

\* The outcomes of a group without storage data (lines 139-144).
RECURSIVE NoStorageOutcomes(_)
NoStorageOutcomes(rows) ==
    IF rows = <<>> THEN <<>>
    ELSE <<[idx |-> Head(rows).idx, storage |-> None]>>
             \o NoStorageOutcomes(Tail(rows))

-----------------------------------------------------------------------------
(* allocate_storage_for_pick_list                                          *)

Group == warehouse_groups[gi + 1]

\* Lines 98-121: an empty table returns at once, otherwise the rows are grouped.
PickEnter ==
    /\ pc = "call" /\ fn = "pick"
    /\ IF locations = <<>>
       THEN /\ pc' = "done"
            /\ warehouse_groups' = <<>>
       ELSE /\ pc' = "groups"
            /\ warehouse_groups' = PickGroups(locations, 1, <<>>)
    /\ result' = <<>>
    /\ gi' = 0
    /\ UNCHANGED <<inputVars, cursorVars>>

\* Lines 126-145: the candidate lookup of the next group finds nothing.
PickNoStorage ==
    /\ pc = "groups" /\ fn = "pick"
    /\ gi < Len(warehouse_groups)
    /\ LET found == get_available_storage_locations(
                        Group.item_code, Group.warehouse, GroupTotal(Group.rows))
       IN /\ found = <<>>
          /\ storage_locations' = found
    /\ result' = result \o NoStorageOutcomes(Group.rows)
    /\ gi' = gi + 1
    /\ UNCHANGED <<inputVars, pc, warehouse_groups, storage_idx,
                   remaining_in_storage, ri, qty_needed, allocations,
                   allocated_storage>>

\* Lines 126-149: the lookup finds candidates; the cursor starts at the first.
PickStartGroup ==
    /\ pc = "groups" /\ fn = "pick"
    /\ gi < Len(warehouse_groups)
    /\ LET found == get_available_storage_locations(
                        Group.item_code, Group.warehouse, GroupTotal(Group.rows))
       IN /\ found # <<>>
          /\ storage_locations' = found
          /\ remaining_in_storage' = found[1].qty_to_pick
    /\ storage_idx' = 0
    /\ ri' = 0
    /\ pc' = "row"
    /\ UNCHANGED <<inputVars, warehouse_groups, gi, qty_needed, allocations,
                   allocated_storage, result>>

\* Lines 151-153.
PickStartRow ==
    /\ pc = "row" /\ fn = "pick"
    /\ ri < Len(Group.rows)
    /\ qty_needed' = Group.rows[ri + 1].qty
    /\ allocations' = <<>>
    /\ pc' = "while"
    /\ UNCHANGED <<inputVars, warehouse_groups, gi, storage_locations,
                   storage_idx, remaining_in_storage, ri, allocated_storage,
                   result>>

WhileCond == qty_needed > 0 /\ storage_idx < Len(storage_locations)

\* Lines 159-166: the current storage fulfils the rest of the row.
PickFulfil ==
    /\ pc = "while" /\ fn = "pick"
    /\ WhileCond
    /\ remaining_in_storage >= qty_needed
    /\ allocations' = Append(allocations,
                             [storage |-> storage_locations[storage_idx + 1].storage,
                              qty |-> qty_needed])
    /\ remaining_in_storage' = remaining_in_storage - qty_needed
    /\ qty_needed' = 0
    /\ UNCHANGED <<inputVars, pc, warehouse_groups, gi, storage_locations,
                   storage_idx, ri, allocated_storage, result>>

\* The cursor moves to the next storage and leaves what the current one still
\* holds.
PickAdvanceLeavingRest ==
    /\ pc = "while" /\ fn = "pick"
    /\ WhileCond
    /\ remaining_in_storage < qty_needed
    /\ storage_idx' = storage_idx + 1
    /\ remaining_in_storage' =
           IF storage_idx + 1 < Len(storage_locations)
           THEN storage_locations[storage_idx + 2].qty_to_pick
           ELSE 0
    /\ UNCHANGED <<inputVars, pc, warehouse_groups, gi, storage_locations, ri,
                   allocated_storage, result, allocations, qty_needed>>

\* Lines 167-181: take what is left of the current storage, move to the next.
PickTakeAndAdvance ==
    /\ pc = "while" /\ fn = "pick"
    /\ WhileCond
    /\ remaining_in_storage < qty_needed
    /\ IF remaining_in_storage > 0
       THEN /\ allocations' =
                   Append(allocations,
                          [storage |-> storage_locations[storage_idx + 1].storage,
                           qty |-> remaining_in_storage])
            /\ qty_needed' = qty_needed - remaining_in_storage
       ELSE UNCHANGED <<allocations, qty_needed>>
    /\ storage_idx' = storage_idx + 1
    /\ remaining_in_storage' =
           IF storage_idx + 1 < Len(storage_locations)
           THEN storage_locations[storage_idx + 2].qty_to_pick
           ELSE 0
    /\ UNCHANGED <<inputVars, pc, warehouse_groups, gi, storage_locations, ri,
                   allocated_storage, result>>

\* The outcome with the last allocation reported as the primary one.
PickOutcomeLastPrimary(idx, allocs) ==
    [idx |-> idx,
     storage |-> IF allocs # <<>> THEN allocs[Len(allocs)].storage ELSE None,
     qty |-> IF allocs # <<>> THEN allocs[Len(allocs)].qty ELSE 0,
     split |-> Len(allocs) > 1,
     additional_allocations |->
         IF Len(allocs) > 1 THEN SubSeq(allocs, 1, Len(allocs) - 1) ELSE <<>>]

\* Lines 184-191: the outcome of a row from its recorded allocations.
PickOutcome(idx, allocs) ==
    [idx |-> idx,
     storage |-> IF allocs # <<>> THEN allocs[1].storage ELSE None,
     qty |-> IF allocs # <<>> THEN allocs[1].qty ELSE 0,
     split |-> Len(allocs) > 1,
     additional_allocations |-> IF Len(allocs) > 1 THEN Tail(allocs) ELSE <<>>]

PickAppendResult ==
    /\ pc = "while" /\ fn = "pick"
    /\ ~WhileCond
    /\ result' = Append(result, PickOutcome(Group.rows[ri + 1].idx, allocations))
    /\ ri' = ri + 1
    /\ pc' = "row"
    /\ UNCHANGED <<inputVars, warehouse_groups, gi, storage_locations,
                   storage_idx, remaining_in_storage, qty_needed, allocations,
                   allocated_storage>>

\* The rows of the group are exhausted: on to the next group.
PickEndGroup ==
    /\ pc = "row" /\ fn = "pick"
    /\ ri = Len(Group.rows)
    /\ gi' = gi + 1
    /\ pc' = "groups"
    /\ UNCHANGED <<inputVars, warehouse_groups, cursorVars, result>>

\* Lines 193-196.
PickReturn ==
    /\ pc = "groups" /\ fn = "pick"
    /\ gi = Len(warehouse_groups)
    /\ result' = SortByIdx(result)
    /\ pc' = "done"
    /\ UNCHANGED <<inputVars, warehouse_groups, gi, cursorVars>>

\* No candidate function is being called.
RankIdle ==
    /\ db = "mariadb"
    /\ batches = <<>>
    /\ serial_nos = <<>>
    /\ based_on = "FIFO"
    /\ ranker = None
    /\ arg_item = None
    /\ arg_qty = 0
    /\ priority_warehouses = <<>>
    /\ exclude_warehouses = None
    /\ data = <<>>
    /\ ranked = <<>>
    /\ reranked = <<>>
    /\ purpose = None
    /\ wo_items = <<>>
    /\ arg_warehouse = None
    /\ default_wip_storage = None
    /\ EntryIdle

InitPick ==
    /\ RankIdle
    /\ sle \in Ledgers
    /\ fn = "pick"
    /\ work_order = None
    /\ locations \in Requests
    /\ pc = "call"
    /\ warehouse_groups = <<>>
    /\ gi = 0
    /\ storage_locations = <<>>
    /\ storage_idx = 0
    /\ remaining_in_storage = 0
    /\ ri = 0
    /\ qty_needed = 0
    /\ allocations = <<>>
    /\ allocated_storage = None
    /\ result = <<>>

NextPick ==
    \/ PickEnter
    \/ PickNoStorage
    \/ PickStartGroup
    \/ PickStartRow
    \/ PickFulfil
    \/ PickTakeAndAdvance
    \/ PickAppendResult
    \/ PickEndGroup
    \/ PickReturn

SpecPick == InitPick /\ [][NextPick]_vars

-----------------------------------------------------------------------------
(* get_storage_for_work_order_items                                        *)

\* Line 254: not item_code or not warehouse or qty <= 0
WOSkipsRow(row) ==
    row.item_code = None \/ row.warehouse = None \/ row.qty <= 0

\* The grouping loop (lines 249-271) over items[i..]; a rejected row gets its
\* outcome at once.  The value is <<warehouse_groups, result>>.
RECURSIVE WOGroups(_, _, _, _)
WOGroups(items, i, groups, res) ==
    IF i > Len(items) THEN <<groups, res>>
    ELSE IF WOSkipsRow(items[i])
    THEN WOGroups(items, i + 1, groups,
                  Append(res, [idx |-> i - 1, storage |-> None]))
    ELSE WOGroups(items, i + 1,
                  AddToGroup(groups, items[i].item_code, items[i].warehouse,
                             [idx |-> i - 1, qty |-> items[i].qty]),
                  res)

\* Lines 238-271.
WOEnter ==
    /\ pc = "call" /\ fn = "wo"
    /\ IF work_order = None \/ locations = <<>>
       THEN /\ pc' = "done"
            /\ warehouse_groups' = <<>>
            /\ result' = <<>>
       ELSE /\ pc' = "groups"
            /\ warehouse_groups' = WOGroups(locations, 1, <<>>, <<>>)[1]
            /\ result' = WOGroups(locations, 1, <<>>, <<>>)[2]
    /\ gi' = 0
    /\ UNCHANGED <<inputVars, cursorVars>>

\* Lines 274-289.
WONoStorage ==
    /\ pc = "groups" /\ fn = "wo"
    /\ gi < Len(warehouse_groups)
    /\ LET found == get_available_storage_locations(
                        Group.item_code, Group.warehouse, GroupTotal(Group.rows))
       IN /\ found = <<>>
          /\ storage_locations' = found
    /\ result' = result \o NoStorageOutcomes(Group.rows)
    /\ gi' = gi + 1
    /\ UNCHANGED <<inputVars, pc, warehouse_groups, storage_idx,
                   remaining_in_storage, ri, qty_needed, allocations,
                   allocated_storage>>

\* Lines 274-293.
WOStartGroup ==
    /\ pc = "groups" /\ fn = "wo"
    /\ gi < Len(warehouse_groups)
    /\ LET found == get_available_storage_locations(
                        Group.item_code, Group.warehouse, GroupTotal(Group.rows))
       IN /\ found # <<>>
          /\ storage_locations' = found
          /\ remaining_in_storage' = found[1].qty_to_pick
    /\ storage_idx' = 0
    /\ ri' = 0
    /\ pc' = "row"
    /\ UNCHANGED <<inputVars, warehouse_groups, gi, qty_needed, allocations,
                   allocated_storage, result>>

\* Lines 295-297.
WOStartRow ==
    /\ pc = "row" /\ fn = "wo"
    /\ ri < Len(Group.rows)
    /\ qty_needed' = Group.rows[ri + 1].qty
    /\ allocated_storage' = None
    /\ pc' = "while"
    /\ UNCHANGED <<inputVars, warehouse_groups, gi, storage_locations,
                   storage_idx, remaining_in_storage, ri, allocations, result>>

\* Lines 303-307.
WOFulfil ==
    /\ pc = "while" /\ fn = "wo"
    /\ WhileCond
    /\ remaining_in_storage >= qty_needed
    /\ allocated_storage' = storage_locations[storage_idx + 1].storage
    /\ remaining_in_storage' = remaining_in_storage - qty_needed
    /\ qty_needed' = 0
    /\ UNCHANGED <<inputVars, pc, warehouse_groups, gi, storage_locations,
                   storage_idx, ri, allocations, result>>

\* Lines 308-318.
WOTakeAndAdvance ==
    /\ pc = "while" /\ fn = "wo"
    /\ WhileCond
    /\ remaining_in_storage < qty_needed
    /\ IF remaining_in_storage > 0
       THEN /\ allocated_storage' = storage_locations[storage_idx + 1].storage
            /\ qty_needed' = qty_needed - remaining_in_storage
       ELSE UNCHANGED <<allocated_storage, qty_needed>>
    /\ storage_idx' = storage_idx + 1
    /\ remaining_in_storage' =
           IF storage_idx + 1 < Len(storage_locations)
           THEN storage_locations[storage_idx + 2].qty_to_pick
           ELSE 0
    /\ UNCHANGED <<inputVars, pc, warehouse_groups, gi, storage_locations, ri,
                   allocations, result>>

\* Lines 320-323.
WOAppendResult ==
    /\ pc = "while" /\ fn = "wo"
    /\ ~WhileCond
    /\ result' = Append(result, [idx |-> Group.rows[ri + 1].idx,
                                 storage |-> allocated_storage])
    /\ ri' = ri + 1
    /\ pc' = "row"
    /\ UNCHANGED <<inputVars, warehouse_groups, gi, storage_locations,
                   storage_idx, remaining_in_storage, qty_needed, allocations,
                   allocated_storage>>

WOEndGroup ==
    /\ pc = "row" /\ fn = "wo"
    /\ ri = Len(Group.rows)
    /\ gi' = gi + 1
    /\ pc' = "groups"
    /\ UNCHANGED <<inputVars, warehouse_groups, cursorVars, result>>

\* Lines 325-328.
WOReturn ==
    /\ pc = "groups" /\ fn = "wo"
    /\ gi = Len(warehouse_groups)
    /\ result' = SortByIdx(result)
    /\ pc' = "done"
    /\ UNCHANGED <<inputVars, warehouse_groups, gi, cursorVars>>

InitWO ==
    /\ RankIdle
    /\ sle \in Ledgers
    /\ fn = "wo"
    /\ work_order \in {None, "WO-1"}
    /\ locations \in Requests
    /\ pc = "call"
    /\ warehouse_groups = <<>>
    /\ gi = 0
    /\ storage_locations = <<>>
    /\ storage_idx = 0
    /\ remaining_in_storage = 0
    /\ ri = 0
    /\ qty_needed = 0
    /\ allocations = <<>>
    /\ allocated_storage = None
    /\ result = <<>>

NextWO ==
    \/ WOEnter
    \/ WONoStorage
    \/ WOStartGroup
    \/ WOStartRow
    \/ WOFulfil
    \/ WOTakeAndAdvance
    \/ WOAppendResult
    \/ WOEndGroup
    \/ WOReturn

\* Both grouped allocators, each called on every request and ledger.
SpecGrouped == (InitPick \/ InitWO) /\ [][NextPick \/ NextWO]_vars

-----------------------------------------------------------------------------
(* Properties of the grouped allocators.                                   *)

Max0(x) == IF x > 0 THEN x ELSE 0

\* The balance of a storage as the ledger records it: the sum of the
\* non-cancelled entries of the item in the warehouse and storage.
Balance(item_code, warehouse, st) ==
    SumActualQty({ i \in DOMAIN sle :
                     /\ sle[i].item_code = item_code
                     /\ sle[i].warehouse = warehouse
                     /\ sle[i].storage = st
                     /\ sle[i].is_cancelled = 0
                     /\ sle[i].docstatus < 2 })

\* What a group's candidates hold together.
RECURSIVE CandidateTotalOver(_, _, _)
CandidateTotalOver(item_code, warehouse, S) ==
    IF S = {} THEN 0
    ELSE LET st == CHOOSE x \in S : TRUE
         IN Max0(Balance(item_code, warehouse, st))
                + CandidateTotalOver(item_code, warehouse, S \ {st})

CandidateTotal(item_code, warehouse) ==
    CandidateTotalOver(item_code, warehouse, Storages)

\* The allocations an outcome reports: the primary one, then the additional.
AllocsOf(o) ==
    IF "qty" \in DOMAIN o /\ o.storage # None
    THEN <<[storage |-> o.storage, qty |-> o.qty]>> \o o.additional_allocations
    ELSE <<>>

RECURSIVE DrawnIn(_, _)
DrawnIn(allocs, st) ==
    IF allocs = <<>> THEN 0
    ELSE (IF Head(allocs).storage = st THEN Head(allocs).qty ELSE 0)
             + DrawnIn(Tail(allocs), st)

RECURSIVE QtyIn(_)
QtyIn(allocs) ==
    IF allocs = <<>> THEN 0 ELSE Head(allocs).qty + QtyIn(Tail(allocs))

\* The outcomes recorded so far for the rows of a group, concatenated.
RECURSIVE GroupAllocs(_, _)
GroupAllocs(res, idxs) ==
    IF res = <<>> THEN <<>>
    ELSE (IF Head(res).idx \in idxs THEN AllocsOf(Head(res)) ELSE <<>>)
             \o GroupAllocs(Tail(res), idxs)

IdxsOf(grp) == {grp.rows[k].idx : k \in DOMAIN grp.rows}

\* The allocations of the row being walked, not yet in result.
InProgress(g) == IF pc = "while" /\ g = gi + 1 THEN allocations ELSE <<>>

OutcomesAt(idx) == {k \in DOMAIN result : result[k].idx = idx}

\* What the row at index idx was allocated (nothing if it has no outcome).
AllocatedTo(idx) ==
    IF OutcomesAt(idx) = {} THEN 0
    ELSE QtyIn(AllocsOf(result[CHOOSE k \in OutcomesAt(idx) : TRUE]))

\* C2: in allocate_storage_for_pick_list, after every step, what the rows of a
\* group have drawn from a storage (primary and additional allocations, and
\* the allocations of the row in progress) never exceeds the storage's balance.
C2_NoStorageOverdrawn ==
    fn = "pick" =>
        \A g \in DOMAIN warehouse_groups : \A st \in Storages :
            LET grp == warehouse_groups[g]
            IN DrawnIn(GroupAllocs(result, IdxsOf(grp)), st)
                   + DrawnIn(InProgress(g), st)
                   <= Max0(Balance(grp.item_code, grp.warehouse, st))

\* Two rows of one group have drawn from the same storage and emptied it.
C2_Witness ==
    /\ fn = "pick" /\ pc = "done"
    /\ \E a, b \in DOMAIN result : \E st \in Storages :
          /\ a # b
          /\ DrawnIn(AllocsOf(result[a]), st) > 0
          /\ DrawnIn(AllocsOf(result[b]), st) > 0
          /\ DrawnIn(AllocsOf(result[a]), st) + DrawnIn(AllocsOf(result[b]), st)
                 = Balance("I1", "W1", st)

RECURSIVE RowsFilled(_)
RowsFilled(rows) ==
    rows = <<>> \/ ( /\ AllocatedTo(Head(rows).idx) = Head(rows).qty
                     /\ RowsFilled(Tail(rows)) )

\* C3: conservation in allocate_storage_for_pick_list.  On return, what a
\* group's rows were allocated is at most what its candidates hold, and when
\* the group's requested total is at most that, the allocated sum equals the
\* requested total and every row is filled completely.
C3_Conservation ==
    (fn = "pick" /\ pc = "done") =>
        \A g \in DOMAIN warehouse_groups :
            LET grp == warehouse_groups[g]
                T == CandidateTotal(grp.item_code, grp.warehouse)
                allocated == QtyIn(GroupAllocs(result, IdxsOf(grp)))
            IN /\ allocated <= T
               /\ GroupTotal(grp.rows) <= T =>
                      /\ allocated = GroupTotal(grp.rows)
                      /\ RowsFilled(grp.rows)

RECURSIVE AllPositive(_)
AllPositive(rows) ==
    rows = <<>> \/ (Head(rows).qty > 0 /\ AllPositive(Tail(rows)))

\* min(q_i, max(0, T - (q_1 + ... + q_(i-1)))) for each row of rows[i..].
RECURSIVE RowsGetTheirShare(_, _, _)
RowsGetTheirShare(rows, i, left) ==
    \/ i > Len(rows)
    \/ /\ AllocatedTo(rows[i].idx) = Min2(rows[i].qty, Max0(left))
       /\ RowsGetTheirShare(rows, i + 1, left - rows[i].qty)

\* C4: in allocate_storage_for_pick_list, in a group of rows of positive
\* quantity q_1..q_n with candidate total T, row i is allocated
\* min(q_i, max(0, T - (q_1 + ... + q_(i-1)))); a deficit ends the call
\* normally (the walk of a row always has a next step, up to its outcome).
C4_RowShare ==
    fn = "pick" =>
        /\ pc = "while" =>
              ENABLED (PickFulfil \/ PickTakeAndAdvance \/ PickAppendResult)
        /\ pc = "done" =>
              \A g \in DOMAIN warehouse_groups :
                  LET grp == warehouse_groups[g]
                  IN AllPositive(grp.rows) =>
                         RowsGetTheirShare(
                             grp.rows, 1,
                             CandidateTotal(grp.item_code, grp.warehouse))

\* A group of two positive rows whose candidates run out: the first row gets
\* part of what it asked for, the second nothing (storage None, qty 0).
C4_Witness ==
    /\ fn = "pick" /\ pc = "done"
    /\ Len(result) = 2
    /\ locations[1].qty = 7 /\ locations[2].qty = 4
    /\ AllocatedTo(0) = 5
    /\ "qty" \in DOMAIN result[2]
    /\ result[2].storage = None /\ result[2].qty = 0

\* C5: allocate_storage_for_pick_list returns one outcome per input row, with
\* idx 0..n-1 in ascending order; a row without item_code, warehouse or
\* quantity has an outcome at its own index too.
C5_OneOutcomePerRow ==
    (fn = "pick" /\ pc = "done") =>
        /\ Len(result) = Len(locations)
        /\ \A k \in DOMAIN result : result[k].idx = k - 1

\* The total of the positive quantities asked of (item_code, warehouse).
RECURSIVE PositiveTotal(_, _, _)
PositiveTotal(rows, item_code, warehouse) ==
    IF rows = <<>> THEN 0
    ELSE (IF /\ Head(rows).item_code = item_code
             /\ Head(rows).warehouse = warehouse
             /\ Head(rows).qty > 0
          THEN Head(rows).qty ELSE 0)
             + PositiveTotal(Tail(rows), item_code, warehouse)

\* C6: in allocate_storage_for_pick_list and get_storage_for_work_order_items
\* a row of quantity <= 0 is rejected before grouping: no group holds such a
\* row, and the total asked of the candidate lookup for a group is the total
\* of the positive rows of its (item_code, warehouse).
C6_NonPositiveRowsRejected ==
    \A g \in DOMAIN warehouse_groups :
        LET grp == warehouse_groups[g]
        IN /\ AllPositive(grp.rows)
           /\ GroupTotal(grp.rows)
                  = PositiveTotal(locations, grp.item_code, grp.warehouse)

-----------------------------------------------------------------------------
(* _prioritize_warehouses                                                  *)

Range(s) == {s[i] : i \in DOMAIN s}

\* The partition with the two halves the other way round.
PrioritizeOthersFirst(rows, priority) ==
    LET priority_set == Range(priority)
        InPriority(row) == row.warehouse \in priority_set
        NotInPriority(row) == row.warehouse \notin priority_set
    IN IF priority = <<>> THEN rows
       ELSE SelectSeq(rows, NotInPriority) \o SelectSeq(rows, InPriority)

\* Lines 415-423.  The callers of this repository pass a list or None.
prioritize_warehouses(rows, priority) ==
    LET priority_set == Range(priority)
        InPriority(row) == row.warehouse \in priority_set
        NotInPriority(row) == row.warehouse \notin priority_set
    IN IF priority = <<>> THEN rows
       ELSE SelectSeq(rows, InPriority) \o SelectSeq(rows, NotInPriority)

\* Candidate rows as _prioritize_warehouses reads them.
PrioRows == [name : {"A", "B", "C"}, warehouse : {"X", "Y"}]

PriorityLists == {<<>>, <<"X">>, <<"Y">>, <<"X", "Y">>}

\* The function is applied to data, then to its own result.
Prioritize ==
    /\ pc = "call" /\ ranker = "prioritize"
    /\ ranked' = prioritize_warehouses(data, priority_warehouses)
    /\ pc' = "ranked"
    /\ UNCHANGED <<sle, groupedVars, result, db, batches, serial_nos, based_on,
                   ranker, arg_item, arg_qty, priority_warehouses,
                   exclude_warehouses, data, reranked>>

PrioritizeAgain ==
    /\ pc = "ranked" /\ ranker = "prioritize"
    /\ reranked' = prioritize_warehouses(ranked, priority_warehouses)
    /\ pc' = "done"
    /\ UNCHANGED <<sle, groupedVars, result, db, batches, serial_nos, based_on,
                   ranker, arg_item, arg_qty, priority_warehouses,
                   exclude_warehouses, data, ranked>>

\* No grouped allocator is being called.
GroupedIdle ==
    /\ fn = None
    /\ work_order = None
    /\ locations = <<>>
    /\ warehouse_groups = <<>>
    /\ gi = 0
    /\ storage_locations = <<>>
    /\ storage_idx = 0
    /\ remaining_in_storage = 0
    /\ ri = 0
    /\ qty_needed = 0
    /\ allocations = <<>>
    /\ allocated_storage = None
    /\ purpose = None
    /\ wo_items = <<>>
    /\ arg_warehouse = None
    /\ default_wip_storage = None
    /\ EntryIdle

InitPrio ==
    /\ GroupedIdle
    /\ sle = <<>>
    /\ result = <<>>
    /\ pc = "call"
    /\ db = "mariadb"
    /\ batches = <<>>
    /\ serial_nos = <<>>
    /\ based_on = "FIFO"
    /\ ranker = "prioritize"
    /\ arg_item = None
    /\ arg_qty = 0
    /\ priority_warehouses \in PriorityLists
    /\ exclude_warehouses = None
    /\ data \in SeqsUpTo(PrioRows, MaxData)
    /\ ranked = <<>>
    /\ reranked = <<>>

NextPrio == Prioritize \/ PrioritizeAgain

SpecPrio == InitPrio /\ [][NextPrio]_vars

\* How often a row occurs in a list.
Count(s, x) == Cardinality({i \in DOMAIN s : s[i] = x})

\* The rows of s at the positions whose warehouse is (not) in the set P.
RECURSIVE Keep(_, _, _)
Keep(s, P, inside) ==
    IF s = <<>> THEN <<>>
    ELSE (IF (Head(s).warehouse \in P) = inside THEN <<Head(s)>> ELSE <<>>)
             \o Keep(Tail(s), P, inside)

\* C8: _prioritize_warehouses is a stable partition.  Its result is a
\* permutation of its argument, every row of a priority warehouse stands before
\* every other row, each of the two parts keeps the order of the argument, and
\* applying it again changes nothing.
C8_StablePartition ==
    (ranker = "prioritize" /\ pc \in {"ranked", "done"}) =>
        LET P == Range(priority_warehouses)
        IN /\ Len(ranked) = Len(data)
           /\ \A x \in Range(data) \cup Range(ranked) :
                  Count(ranked, x) = Count(data, x)
           /\ \A i, j \in DOMAIN ranked :
                  ( /\ ranked[i].warehouse \in P
                    /\ ranked[j].warehouse \notin P ) => i < j
           /\ Keep(ranked, P, TRUE) = Keep(data, P, TRUE)
           /\ Keep(ranked, P, FALSE) = Keep(data, P, FALSE)
           /\ pc = "done" => reranked = ranked

\* [A(X), B(Y), C(X)] with priority {X} has become [A, C, B], twice.
C8_Witness ==
    /\ ranker = "prioritize" /\ pc = "done"
    /\ priority_warehouses = <<"X">>
    /\ data = << [name |-> "A", warehouse |-> "X"],
                 [name |-> "B", warehouse |-> "Y"],
                 [name |-> "C", warehouse |-> "X"] >>
    /\ ranked = << [name |-> "A", warehouse |-> "X"],
                   [name |-> "C", warehouse |-> "X"],
                   [name |-> "B", warehouse |-> "Y"] >>
    /\ reranked = ranked

-----------------------------------------------------------------------------
(* The candidate functions of get_available_stock_for_items.               *)

Today == 3

\* A date column that is NULL (dates are 1, 2, ...).
NoDate == 0

\* Where ORDER BY ... ASC puts NULL: first on MariaDB, last on PostgreSQL.
NullKey == IF db = "mariadb" THEN 0 ELSE Today + 100

\* The lists a query may return for the rows R: the rows in non-decreasing
\* order of their ORDER BY key; rows of equal key come in any order.
Orderings(R) ==
    { s \in [1..Cardinality(R) -> R] :
        /\ \A i, j \in DOMAIN s : i # j => s[i] # s[j]
        /\ \A i \in DOMAIN s :
               i < Len(s) => ~KeyLess(s[i + 1].key, s[i].key) }

\* tabBin as the ledger maintains it: one row per (item_code, warehouse) that
\* has ledger entries, created with the first of them, its actual_qty the sum
\* of the entries that are not cancelled.
BinRows ==
    { [item_code |-> sle[i].item_code,
       warehouse |-> sle[i].warehouse,
       actual_qty |->
           SumActualQty({ j \in DOMAIN sle :
                            /\ sle[j].item_code = sle[i].item_code
                            /\ sle[j].warehouse = sle[i].warehouse
                            /\ sle[j].is_cancelled = 0 }),
       key |-> << MinOf({ j \in DOMAIN sle :
                            /\ sle[j].item_code = sle[i].item_code
                            /\ sle[j].warehouse = sle[i].warehouse }) >>]
      : i \in DOMAIN sle }

\* The Bin query without the exclusion of lines 541-546.
BinDataNoExclude(item, warehouse, exclude) ==
    OrderByKey({ b \in BinRows :
                   /\ b.item_code = item
                   /\ b.actual_qty > 0
                   /\ warehouse # None => b.warehouse = warehouse })

\* Lines 527-548: the Bin query.
BinData(item, warehouse, exclude) ==
    OrderByKey({ b \in BinRows :
                   /\ b.item_code = item
                   /\ b.actual_qty > 0
                   /\ warehouse # None => b.warehouse = warehouse
                   /\ exclude # None => b.warehouse # exclude })

\* Lines 564-582: the storage breakdown of one warehouse.
OtherStorageData(item, wh, policy) ==
    LET I == { i \in DOMAIN sle :
                 /\ sle[i].item_code = item
                 /\ sle[i].warehouse = wh
                 /\ sle[i].is_cancelled = 0
                 /\ sle[i].docstatus < 2 }
        R == {GroupRow(I, st) : st \in {sle[i].storage : i \in I}}
        H == {r \in R : r.available_qty > 0}
    IN IF policy = "LIFO"
       THEN OrderByKey({[r EXCEPT !.key = NegKey(@)] : r \in H})
       ELSE OrderByKey(H)

\* Lines 584-597: the candidates of one warehouse.
OtherCandidatesOf(item, bin_row, policy) ==
    LET storage_data == OtherStorageData(item, bin_row.warehouse, policy)
    IN IF storage_data # <<>>
       THEN [k \in DOMAIN storage_data |->
                [warehouse |-> bin_row.warehouse,
                 storage |-> storage_data[k].storage,
                 qty |-> storage_data[k].available_qty]]
       ELSE << [warehouse |-> bin_row.warehouse, storage |-> None,
                qty |-> bin_row.actual_qty] >>

RECURSIVE OtherLoop(_, _, _)
OtherLoop(item, bin_data, policy) ==
    IF bin_data = <<>> THEN <<>>
    ELSE OtherCandidatesOf(item, Head(bin_data), policy)
             \o OtherLoop(item, Tail(bin_data), policy)

\* _get_available_stock_for_other_item (lines 526-599); warehouse and
\* exclude_warehouses are a warehouse or None, as its caller passes them.
get_available_stock_for_other_item(item, warehouse, policy, priority, exclude) ==
    LET bin_data == BinData(item, warehouse, exclude)
    IN IF bin_data = <<>> THEN <<>>
       ELSE OtherLoop(item, prioritize_warehouses(bin_data, priority), policy)

\* tabBatch rows.
BatchRow(creation, expiry, disabled) ==
    [creation |-> creation, expiry_date |-> expiry, disabled |-> disabled]

\* The rows of the join (lines 360-391) as pairs <<i, j>>: ledger entry i and
\* row j of its bundle.
BatchJoin(item, warehouse, exclude) ==
    { p \in UNION { {<<i, j>> : j \in DOMAIN sle[i].bundle} : i \in DOMAIN sle } :
        LET e == sle[p[1]]
            b == e.bundle[p[2]]
        IN /\ b.batch_no \in DOMAIN batches
           /\ batches[b.batch_no].disabled = 0
           /\ e.is_cancelled = 0
           /\ \/ batches[b.batch_no].expiry_date = NoDate
              \/ batches[b.batch_no].expiry_date >= Today
           /\ e.item_code = item
           /\ warehouse # None => e.warehouse = warehouse
           /\ exclude # None => e.warehouse # exclude }

RECURSIVE SumBundleQty(_)
SumBundleQty(J) ==
    IF J = {} THEN 0
    ELSE LET p == CHOOSE q \in J : TRUE
         IN sle[p[1]].bundle[p[2]].qty + SumBundleQty(J \ {p})

\* Lines 393-399: the ORDER BY key of a batch.
BatchKey(batch_no, policy) ==
    IF policy = "LIFO" THEN << 0 - batches[batch_no].creation >>
    ELSE IF policy = "Expiry"
    THEN << IF batches[batch_no].expiry_date = NoDate THEN NullKey
            ELSE batches[batch_no].expiry_date >>
    ELSE << batches[batch_no].creation >>

\* GROUP BY batch_no, warehouse, storage HAVING SUM(qty) > 0.
BatchGroups(item, warehouse, policy, exclude) ==
    LET J == BatchJoin(item, warehouse, exclude)
        G(p) == { q \in J :
                    /\ sle[q[1]].bundle[q[2]].batch_no = sle[p[1]].bundle[p[2]].batch_no
                    /\ sle[q[1]].bundle[q[2]].warehouse = sle[p[1]].bundle[p[2]].warehouse
                    /\ sle[q[1]].storage = sle[p[1]].storage }
        R == { [batch_no |-> sle[p[1]].bundle[p[2]].batch_no,
                warehouse |-> sle[p[1]].bundle[p[2]].warehouse,
                storage |-> sle[p[1]].storage,
                qty |-> SumBundleQty(G(p)),
                key |-> BatchKey(sle[p[1]].bundle[p[2]].batch_no, policy)]
               : p \in J }
    IN {r \in R : r.qty > 0}

BatchColumns(rows) ==
    [k \in DOMAIN rows |->
        [batch_no |-> rows[k].batch_no, warehouse |-> rows[k].warehouse,
         storage |-> rows[k].storage, qty |-> rows[k].qty]]

\* _get_available_batches_for_item (lines 353-407): the lists it may return.
get_available_batches_for_item(item, warehouse, policy, priority, exclude) ==
    { prioritize_warehouses(BatchColumns(rows), priority)
        : rows \in Orderings(BatchGroups(item, warehouse, policy, exclude)) }

\* tabSerial No rows; creation is the position in serial_nos.
SerialNames == <<"SN1", "SN2", "SN3", "SN4", "SN5">>

\* Lines 473-477: the ORDER BY key of a serial number.
SerialKey(i, policy) ==
    IF policy = "Expiry"
    THEN << IF serial_nos[i].amc_expiry_date = NoDate THEN NullKey
            ELSE serial_nos[i].amc_expiry_date >>
    ELSE IF policy = "LIFO" THEN << 0 - i >>
    ELSE << i >>

\* Lines 449-471: the rows of the Serial No query.
SerialRows(item, warehouse, policy, exclude) ==
    { [serial_no |-> serial_nos[i].name,
       warehouse |-> serial_nos[i].warehouse,
       batch_no |-> serial_nos[i].batch_no,
       key |-> SerialKey(i, policy)]
      : i \in { k \in DOMAIN serial_nos :
                  /\ serial_nos[k].item_code = item
                  /\ serial_nos[k].warehouse # None
                  /\ warehouse # None => serial_nos[k].warehouse = warehouse
                  /\ exclude # None => serial_nos[k].warehouse # exclude } }

\* data[:n]
FirstN(s, n) == SubSeq(s, 1, Min2(n, Len(s)))

\* Lines 488-498: the storage of the latest ledger entry of a serial number
\* that is not cancelled (None when there is none).
SerialStorage(item, warehouse, serial_no) ==
    LET I == { i \in DOMAIN sle :
                 /\ sle[i].item_code = item
                 /\ sle[i].warehouse = warehouse
                 /\ sle[i].serial_no = serial_no
                 /\ sle[i].is_cancelled = 0 }
        K(i) == <<sle[i].posting_date, sle[i].posting_time, i>>
    IN IF I = {} THEN None
       ELSE sle[CHOOSE i \in I : \A j \in I : j = i \/ KeyLess(K(j), K(i))].storage

SerialColumns(item, rows) ==
    [k \in DOMAIN rows |->
        [serial_no |-> rows[k].serial_no, warehouse |-> rows[k].warehouse,
         batch_no |-> rows[k].batch_no,
         storage |-> SerialStorage(item, rows[k].warehouse, rows[k].serial_no)]]

\* The function with the LIMIT applied before the priority reordering.
SerialNosLimitFirst(item, warehouse, qty, policy, priority, exclude) ==
    { LET limited == IF qty > 0 THEN FirstN(rows, qty) ELSE rows
      IN prioritize_warehouses(SerialColumns(item, limited), priority)
      : rows \in Orderings(SerialRows(item, warehouse, policy, exclude)) }

\* _get_available_serial_nos_for_item (lines 442-507): the lists it may
\* return.
get_available_serial_nos_for_item(item, warehouse, qty, policy, priority, exclude) ==
    { LET limited == IF qty > 0 /\ priority = <<>> THEN FirstN(rows, qty) ELSE rows
          with_storage == SerialColumns(item, limited)
      IN IF priority # <<>> /\ with_storage # <<>>
         THEN IF qty > 0
              THEN FirstN(prioritize_warehouses(with_storage, priority), qty)
              ELSE prioritize_warehouses(with_storage, priority)
         ELSE with_storage
      : rows \in Orderings(SerialRows(item, warehouse, policy, exclude)) }

-----------------------------------------------------------------------------
(* The snapshots the candidate functions are called on: one item of each   *)
(* tracking discipline, "P" (plain), "B" (batch) and "S" (serial).  W3 is  *)
(* the WIP warehouse.                                                      *)

Policies == {"FIFO", "LIFO", "Expiry"}

PlainUniverse ==
    { SLE("P", "W1", "S1", 2, 2, 0),
      SLE("P", "W1", "S2", 2, 1, 0),
      SLE("P", "W2", "S1", 2, 1, 0),
      SLE("P", "W1", "S1", -2, 2, 0),
      SLE("P", "W3", "S1", 2, 2, 0),
      SLE("P", "W1", None, 2, 2, 0) }

\* A ledger entry of a batch item: its bundle has one row.
BatchSLE(item, wh, st, batch_no, qty) ==
    [SLE(item, wh, st, qty, 2, 0) EXCEPT
        !.bundle = <<[batch_no |-> batch_no, warehouse |-> wh, qty |-> qty]>>]

BatchUniverse ==
    { BatchSLE("B", "W1", "S1", "B1", 2),
      BatchSLE("B", "W1", "S2", "B1", 2),
      BatchSLE("B", "W2", "S1", "B2", 2),
      BatchSLE("B", "W1", "S1", "B2", 1),
      BatchSLE("B", "W1", "S1", "B1", -2),
      BatchSLE("B", "W3", "S1", "B1", 2) }

\* B1 was created before B2; a batch may have no expiry date, be expired
\* (before Today) or be disabled.
BatchTables ==
    { [b \in {"B1", "B2"} |->
          IF b = "B1" THEN BatchRow(1, e1, d1) ELSE BatchRow(2, e2, 0)]
      : e1 \in {NoDate, 5}, d1 \in {0, 1}, e2 \in {NoDate, 2, 5} }

\* A serial number with the storage its receipt put it in.
SerialUniverse ==
    { [warehouse |-> "W1", storage |-> "S1", amc_expiry_date |-> NoDate, batch_no |-> None],
      [warehouse |-> "W1", storage |-> "S2", amc_expiry_date |-> 5, batch_no |-> None],
      [warehouse |-> "W2", storage |-> "S1", amc_expiry_date |-> 5, batch_no |-> None],
      [warehouse |-> "W3", storage |-> "S1", amc_expiry_date |-> NoDate, batch_no |-> None],
      [warehouse |-> None, storage |-> None, amc_expiry_date |-> NoDate, batch_no |-> None] }

\* tabSerial No of the serial numbers srows, named in creation order.
SerialTable(item, srows) ==
    [i \in DOMAIN srows |->
        [name |-> SerialNames[i], item_code |-> item,
         warehouse |-> srows[i].warehouse, batch_no |-> srows[i].batch_no,
         amc_expiry_date |-> srows[i].amc_expiry_date]]

\* The receipts of the serial numbers that are in a warehouse.
RECURSIVE SerialLedgerFrom(_, _, _)
SerialLedgerFrom(item, srows, i) ==
    IF i > Len(srows) THEN <<>>
    ELSE (IF srows[i].warehouse = None THEN <<>>
          ELSE << [SLE(item, srows[i].warehouse, srows[i].storage, 1, 2, 0)
                      EXCEPT !.serial_no = SerialNames[i]] >>)
             \o SerialLedgerFrom(item, srows, i + 1)

SerialLedger(item, srows) == SerialLedgerFrom(item, srows, 1)

\* The candidate function is called, and called again on the same snapshot.
RankOther ==
    /\ ranker = "other" /\ pc \in {"call", "ranked"}
    /\ LET got == get_available_stock_for_other_item(
                      arg_item, None, based_on, priority_warehouses,
                      exclude_warehouses)
       IN IF pc = "call"
          THEN ranked' = got /\ pc' = "ranked" /\ UNCHANGED reranked
          ELSE reranked' = got /\ pc' = "done" /\ UNCHANGED ranked
    /\ UNCHANGED <<sle, groupedVars, result, db, batches, serial_nos, based_on,
                   ranker, arg_item, arg_qty, priority_warehouses,
                   exclude_warehouses, data>>

RankBatches ==
    /\ ranker = "batch" /\ pc \in {"call", "ranked"}
    /\ \E got \in get_available_batches_for_item(
                      arg_item, None, based_on, priority_warehouses,
                      exclude_warehouses) :
          IF pc = "call"
          THEN ranked' = got /\ pc' = "ranked" /\ UNCHANGED reranked
          ELSE reranked' = got /\ pc' = "done" /\ UNCHANGED ranked
    /\ UNCHANGED <<sle, groupedVars, result, db, batches, serial_nos, based_on,
                   ranker, arg_item, arg_qty, priority_warehouses,
                   exclude_warehouses, data>>

RankSerials ==
    /\ ranker = "serial" /\ pc \in {"call", "ranked"}
    /\ \E got \in get_available_serial_nos_for_item(
                      arg_item, None, arg_qty, based_on, priority_warehouses,
                      exclude_warehouses) :
          IF pc = "call"
          THEN ranked' = got /\ pc' = "ranked" /\ UNCHANGED reranked
          ELSE reranked' = got /\ pc' = "done" /\ UNCHANGED ranked
    /\ UNCHANGED <<sle, groupedVars, result, db, batches, serial_nos, based_on,
                   ranker, arg_item, arg_qty, priority_warehouses,
                   exclude_warehouses, data>>

InitRank ==
    /\ GroupedIdle
    /\ result = <<>>
    /\ pc = "call"
    /\ based_on \in Policies
    /\ priority_warehouses \in {<<>>, <<"W2">>}
    /\ exclude_warehouses \in {None, "W3"}
    /\ data = <<>>
    /\ ranked = <<>>
    /\ reranked = <<>>
    /\ \/ /\ ranker = "other" /\ arg_item = "P" /\ arg_qty = 0
          /\ sle \in SeqsUpTo(PlainUniverse, MaxSLE)
          /\ db = "mariadb" /\ batches = <<>> /\ serial_nos = <<>>
       \/ /\ ranker = "batch" /\ arg_item = "B" /\ arg_qty = 0
          /\ sle \in SeqsUpTo(BatchUniverse, MaxSLE)
          /\ db \in {"mariadb", "postgres"}
          /\ batches \in BatchTables
          /\ serial_nos = <<>>
       \/ /\ ranker = "serial" /\ arg_item = "S" /\ arg_qty \in 0..MaxSerials
          /\ \E srows \in SeqsUpTo(SerialUniverse, MaxSerials) :
                /\ serial_nos = SerialTable("S", srows)
                /\ sle = SerialLedger("S", srows)
          /\ db \in {"mariadb", "postgres"}
          /\ batches = <<>>

NextRank == RankOther \/ RankBatches \/ RankSerials

SpecRank == InitRank /\ [][NextRank]_vars

-----------------------------------------------------------------------------
(* Properties of the candidate functions.                                  *)

\* The order key of a plain candidate: earliest posting date, time and
\* creation of the ledger entries of its warehouse and storage.
PlainKey(item, c) ==
    LET G == { i \in DOMAIN sle :
                 /\ sle[i].item_code = item
                 /\ sle[i].warehouse = c.warehouse
                 /\ sle[i].storage = c.storage
                 /\ sle[i].is_cancelled = 0
                 /\ sle[i].docstatus < 2 }
    IN << MinOf({sle[i].posting_date : i \in G}),
          MinOf({sle[i].posting_time : i \in G}),
          MinOf(G) >>

\* C9: for a plain item and no priority set, the list of
\* _get_available_stock_for_other_item is ordered as one pool: the order keys
\* are non-decreasing along the whole list under FIFO and non-increasing under
\* LIFO, whatever the warehouses of the candidates.
C9_OnePool ==
    (ranker = "other" /\ pc \in {"ranked", "done"}
        /\ priority_warehouses = <<>> /\ based_on \in {"FIFO", "LIFO"}) =>
        \A i \in DOMAIN ranked :
            i < Len(ranked) =>
                IF based_on = "FIFO"
                THEN ~KeyLess(PlainKey(arg_item, ranked[i + 1]),
                              PlainKey(arg_item, ranked[i]))
                ELSE ~KeyLess(PlainKey(arg_item, ranked[i]),
                              PlainKey(arg_item, ranked[i + 1]))

\* The primary policy key and the creation marker of a candidate.
PrimaryKey(c) ==
    CASE ranker = "other" ->
             <<PlainKey(arg_item, c)[1], PlainKey(arg_item, c)[2]>>
      [] ranker = "batch" ->
             IF based_on = "Expiry" THEN <<batches[c.batch_no].expiry_date>>
             ELSE <<batches[c.batch_no].creation>>
      [] ranker = "serial" ->
             LET i == CHOOSE k \in DOMAIN serial_nos :
                          serial_nos[k].name = c.serial_no
             IN IF based_on = "Expiry" THEN <<serial_nos[i].amc_expiry_date>>
                ELSE <<i>>

CreationMarker(c) ==
    CASE ranker = "other" -> PlainKey(arg_item, c)[3]
      [] ranker = "batch" -> batches[c.batch_no].creation
      [] ranker = "serial" ->
             CHOOSE k \in DOMAIN serial_nos : serial_nos[k].name = c.serial_no

\* Two candidates the ranking compares by policy key alone: both in a priority
\* warehouse or both not, and for a plain item both in one warehouse.
SamePartition(c, d) ==
    /\ (c.warehouse \in Range(priority_warehouses))
           = (d.warehouse \in Range(priority_warehouses))
    /\ ranker = "other" => c.warehouse = d.warehouse

\* C10: ranking is deterministic with a creation tie-break.  Under every
\* policy and discipline two candidates of equal primary policy key stand in
\* ascending order of creation marker, and ranking the unchanged snapshot
\* again gives the identical list.
C10_DeterministicRanking ==
    (ranker \in {"other", "batch", "serial"} /\ pc = "done") =>
        /\ reranked = ranked
        /\ \A i, j \in DOMAIN ranked :
               ( /\ i < j
                 /\ SamePartition(ranked[i], ranked[j])
                 /\ PrimaryKey(ranked[i]) = PrimaryKey(ranked[j]) ) =>
                   CreationMarker(ranked[i]) <= CreationMarker(ranked[j])

-----------------------------------------------------------------------------
(* get_available_stock_for_items (lines 603-829).                          *)

\* tabItem: "P" is a plain item, "B" has batches, "S" serial numbers and "BS"
\* both (lines 671-677; an unknown item has neither).
ItemDetails(item_code) ==
    [has_serial_no |-> IF item_code \in {"S", "BS"} THEN 1 ELSE 0,
     has_batch_no |-> IF item_code \in {"B", "BS"} THEN 1 ELSE 0]

\* Lines 648-650: the WIP warehouse of the work order.
wip_warehouse == "W3"

MTM == "Material Transfer for Manufacture"

\* A row of items_json.
StockRow(item, q, tq) == [item_code |-> item, qty |-> q, transfer_qty |-> tq]

\* Line 657: float(item.get('qty') or item.get('transfer_qty') or 0).
RequiredQty(item) == IF item.qty # 0 THEN item.qty ELSE item.transfer_qty

\* Line 659.
StockRejectsRow(item) == item.item_code = None \/ RequiredQty(item) <= 0

\* Lines 640-645: the source warehouses of the work order items, per item, in
\* the order met and without repetition.
RECURSIVE PriorityOf(_, _)
PriorityOf(rows, item_code) ==
    IF rows = <<>> THEN <<>>
    ELSE LET before == PriorityOf(SubSeq(rows, 1, Len(rows) - 1), item_code)
             last == rows[Len(rows)]
         IN IF /\ last.item_code = item_code
               /\ last.source_warehouse # None
               /\ last.source_warehouse \notin Range(before)
            THEN Append(before, last.source_warehouse)
            ELSE before

\* priority_warehouses.get(item_code): <<>> stands for None.
ItemPriority(item_code) ==
    IF item_code \in DOMAIN priority_warehouses
    THEN priority_warehouses[item_code] ELSE <<>>

\* Lines 784-802 (and 696-712 for a batch item without serial numbers): walk
\* the candidate rows while something remains to allocate.
RECURSIVE StockWalk(_, _, _)
StockWalk(rows, remaining_qty, has_batch_no) ==
    IF rows = <<>> \/ remaining_qty <= 0 THEN <<>>
    ELSE LET row == Head(rows)
             qty_to_take == Min2(row.qty, remaining_qty)
         IN IF row.qty <= 0
            THEN StockWalk(Tail(rows), remaining_qty, has_batch_no)
            ELSE << IF has_batch_no
                    THEN [warehouse |-> row.warehouse, storage |-> row.storage,
                          batch_no |-> row.batch_no, qty |-> qty_to_take,
                          available_qty |-> row.qty]
                    ELSE [warehouse |-> row.warehouse, storage |-> row.storage,
                          batch_no |-> None, serial_nos |-> <<>>,
                          qty |-> qty_to_take, available_qty |-> row.qty] >>
                     \o StockWalk(Tail(rows), remaining_qty - qty_to_take,
                                  has_batch_no)

\* The serial numbers of serial_data whatever their batch.
BatchSerialsAnyBatch(serial_data, batch_no) ==
    [k \in DOMAIN serial_data |-> serial_data[k].serial_no]

\* Lines 725-728: the serial numbers of serial_data that are in the batch.
RECURSIVE BatchSerials(_, _)
BatchSerials(serial_data, batch_no) ==
    IF serial_data = <<>> THEN <<>>
    ELSE (IF Head(serial_data).batch_no = batch_no
          THEN <<Head(serial_data).serial_no>> ELSE <<>>)
             \o BatchSerials(Tail(serial_data), batch_no)

\* Lines 696-732 for an item with batches and serial numbers: the allocation
\* lists the walk may produce, one serial lookup per batch row taken.
RECURSIVE BatchSerialWalk(_, _, _)
BatchSerialWalk(item_code, rows, remaining_qty) ==
    IF rows = <<>> \/ remaining_qty <= 0 THEN {<<>>}
    ELSE LET row == Head(rows)
             qty_to_take == Min2(row.qty, remaining_qty)
         IN IF row.qty <= 0
            THEN BatchSerialWalk(item_code, Tail(rows), remaining_qty)
            ELSE { << [warehouse |-> row.warehouse, storage |-> row.storage,
                       batch_no |-> row.batch_no, qty |-> qty_to_take,
                       available_qty |-> row.qty,
                       serial_nos |->
                           FirstN(BatchSerials(serial_data, row.batch_no),
                                  qty_to_take)] >> \o rest
                   : serial_data \in get_available_serial_nos_for_item(
                                         item_code, row.warehouse, qty_to_take,
                                         based_on, ItemPriority(item_code),
                                         exclude_warehouses),
                     rest \in BatchSerialWalk(item_code, Tail(rows),
                                              remaining_qty - qty_to_take) }

\* Lines 746-755: the serial rows grouped by (warehouse, storage); a dict
\* keeps its keys in insertion order.
RECURSIVE SerialGroups(_)
SerialGroups(serial_data) ==
    IF serial_data = <<>> THEN <<>>
    ELSE LET before == SerialGroups(SubSeq(serial_data, 1, Len(serial_data) - 1))
             row == serial_data[Len(serial_data)]
             at == { k \in DOMAIN before :
                       /\ before[k].warehouse = row.warehouse
                       /\ before[k].storage = row.storage }
         IN IF at = {}
            THEN Append(before, [warehouse |-> row.warehouse,
                                 storage |-> row.storage,
                                 serial_nos |-> <<row.serial_no>>])
            ELSE [k \in DOMAIN before |->
                     IF k \in at
                     THEN [before[k] EXCEPT
                              !.serial_nos = Append(@, row.serial_no)]
                     ELSE before[k]]

\* Lines 757-772.
RECURSIVE SerialWalk(_, _)
SerialWalk(groups, remaining_qty) ==
    IF groups = <<>> \/ remaining_qty <= 0 THEN <<>>
    ELSE LET group == Head(groups)
             qty_to_take == Min2(Len(group.serial_nos), remaining_qty)
         IN << [warehouse |-> group.warehouse, storage |-> group.storage,
                batch_no |-> None,
                serial_nos |-> FirstN(group.serial_nos, qty_to_take),
                qty |-> qty_to_take,
                available_qty |-> Len(group.serial_nos)] >>
                \o SerialWalk(Tail(groups), remaining_qty - qty_to_take)

\* Lines 660-667 and 820-827.
EmptyOutcome(idx) ==
    [idx |-> idx, warehouse |-> None, storage |-> None, batch_no |-> None,
     serial_nos |-> <<>>, available_qty |-> 0]

\* allocation.get('serial_nos', [])
SerialNosOf(a) == IF "serial_nos" \in DOMAIN a THEN a.serial_nos ELSE <<>>

\* Lines 804-827: the outcome of a row from its recorded allocations.
StockOutcome(idx, allocs, details) ==
    IF allocs # <<>>
    THEN [idx |-> idx,
          warehouse |-> allocs[1].warehouse,
          storage |-> allocs[1].storage,
          batch_no |-> allocs[1].batch_no,
          serial_nos |-> SerialNosOf(allocs[1]),
          available_qty |-> allocs[1].available_qty,
          qty_allocated |-> allocs[1].qty,
          has_serial_no |-> details.has_serial_no,
          has_batch_no |-> details.has_batch_no,
          has_split |-> Len(allocs) > 1,
          additional_allocations |->
              IF Len(allocs) > 1 THEN Tail(allocs) ELSE <<>>]
    ELSE EmptyOutcome(idx)

\* The item of the row being processed and what line 683 starts from.
StockItem == locations[ri + 1]

\* Every variable a row of get_available_stock_for_items leaves alone.
stockFixed == <<sle, fn, work_order, locations, pc, warehouse_groups, gi,
                storage_locations, storage_idx, remaining_in_storage,
                qty_needed, allocated_storage, db, batches, serial_nos,
                based_on, ranker, arg_item, arg_qty, priority_warehouses,
                exclude_warehouses, data, reranked, stockVars>>

\* Lines 622-653: the call up to the loop over the rows.
StockEnter ==
    /\ pc = "call" /\ fn = "stock"
    /\ IF locations = <<>>
       THEN /\ pc' = "done"
            /\ UNCHANGED <<priority_warehouses, exclude_warehouses>>
       ELSE /\ pc' = "items"
            /\ IF work_order # None /\ purpose = MTM
               THEN /\ priority_warehouses' =
                           LET codes == { wo_items[k].item_code :
                                            k \in { j \in DOMAIN wo_items :
                                                wo_items[j].source_warehouse # None } }
                           IN [c \in codes |-> PriorityOf(wo_items, c)]
                    /\ exclude_warehouses' = wip_warehouse
               ELSE UNCHANGED <<priority_warehouses, exclude_warehouses>>
    /\ UNCHANGED <<sle, fn, work_order, locations, warehouse_groups, gi,
                   cursorVars, result, db, batches, serial_nos, based_on,
                   ranker, arg_item, arg_qty, data, ranked, reranked,
                   stockVars>>

\* Lines 659-668: a row without item code or with nothing required.
StockRejectRow ==
    /\ pc = "items" /\ fn = "stock"
    /\ ri < Len(locations)
    /\ StockRejectsRow(StockItem)
    /\ result' = Append(result, EmptyOutcome(ri))
    /\ ri' = ri + 1
    /\ UNCHANGED <<stockFixed, allocations, ranked>>

\* Lines 685-733 and 804-827: a row of an item with batches.
StockBatchRow ==
    /\ pc = "items" /\ fn = "stock"
    /\ ri < Len(locations)
    /\ ~StockRejectsRow(StockItem)
    /\ ItemDetails(StockItem.item_code).has_batch_no = 1
    /\ \E batch_data \in get_available_batches_for_item(
                             StockItem.item_code, None, based_on,
                             ItemPriority(StockItem.item_code),
                             exclude_warehouses) :
          /\ ranked' = batch_data
          /\ IF ItemDetails(StockItem.item_code).has_serial_no = 1
             THEN allocations' \in BatchSerialWalk(StockItem.item_code,
                                                  batch_data,
                                                  RequiredQty(StockItem))
             ELSE allocations' = StockWalk(batch_data, RequiredQty(StockItem),
                                           TRUE)
    /\ result' = Append(result,
                        StockOutcome(ri, allocations',
                                     ItemDetails(StockItem.item_code)))
    /\ ri' = ri + 1
    /\ UNCHANGED stockFixed

\* Lines 734-772 and 804-827: a row of an item with serial numbers only.
StockSerialRow ==
    /\ pc = "items" /\ fn = "stock"
    /\ ri < Len(locations)
    /\ ~StockRejectsRow(StockItem)
    /\ ItemDetails(StockItem.item_code).has_batch_no = 0
    /\ ItemDetails(StockItem.item_code).has_serial_no = 1
    /\ \E serial_data \in get_available_serial_nos_for_item(
                              StockItem.item_code, None,
                              RequiredQty(StockItem), based_on,
                              ItemPriority(StockItem.item_code),
                              exclude_warehouses) :
          /\ ranked' = serial_data
          /\ allocations' = SerialWalk(SerialGroups(serial_data),
                                       RequiredQty(StockItem))
    /\ result' = Append(result,
                        StockOutcome(ri, allocations',
                                     ItemDetails(StockItem.item_code)))
    /\ ri' = ri + 1
    /\ UNCHANGED stockFixed

\* Lines 774-827: a row of an item without batches and serial numbers.
StockPlainRow ==
    /\ pc = "items" /\ fn = "stock"
    /\ ri < Len(locations)
    /\ ~StockRejectsRow(StockItem)
    /\ ItemDetails(StockItem.item_code).has_batch_no = 0
    /\ ItemDetails(StockItem.item_code).has_serial_no = 0
    /\ ranked' = get_available_stock_for_other_item(
                     StockItem.item_code, None, based_on,
                     ItemPriority(StockItem.item_code), exclude_warehouses)
    /\ allocations' = StockWalk(ranked', RequiredQty(StockItem), FALSE)
    /\ result' = Append(result,
                        StockOutcome(ri, allocations',
                                     ItemDetails(StockItem.item_code)))
    /\ ri' = ri + 1
    /\ UNCHANGED stockFixed

\* Line 829.
StockReturn ==
    /\ pc = "items" /\ fn = "stock"
    /\ ri = Len(locations)
    /\ pc' = "done"
    /\ UNCHANGED <<inputVars, warehouse_groups, gi, cursorVars, result>>

\* The rows of a call, all of one item: one with qty, one with transfer_qty
\* only, one with neither.
StockRowUniverse(item) ==
    { StockRow(item, 3, 0), StockRow(item, 0, 2), StockRow(item, 0, 0) }

\* tabWork Order Item of the work order, for the item of the call.
WorkOrderItems(item) ==
    << [item_code |-> item, source_warehouse |-> "W2"],
       [item_code |-> item, source_warehouse |-> None],
       [item_code |-> item, source_warehouse |-> "W2"] >>

\* The ledger of a call for a plain item, a batch item and a serial item: a
\* warehouse, a priority warehouse and the WIP warehouse.
StockPlainUniverse ==
    { SLE("P", "W1", "S1", 2, 2, 0),
      SLE("P", "W1", "S2", 2, 1, 0),
      SLE("P", "W2", "S1", 2, 1, 0),
      SLE("P", "W3", "S1", 2, 2, 0) }

StockBatchUniverse ==
    { BatchSLE("B", "W1", "S1", "B1", 2),
      BatchSLE("B", "W2", "S1", "B2", 2),
      BatchSLE("B", "W3", "S1", "B1", 2) }

StockSerialUniverse == {r \in SerialUniverse : r.warehouse # None}

\* The serial numbers of the item with batches, each with its batch.
BatchSerialUniverse ==
    { [warehouse |-> "W1", storage |-> "S1", amc_expiry_date |-> NoDate, batch_no |-> "B1"],
      [warehouse |-> "W1", storage |-> "S1", amc_expiry_date |-> NoDate, batch_no |-> "B2"],
      [warehouse |-> "W2", storage |-> "S1", amc_expiry_date |-> NoDate, batch_no |-> "B1"] }

\* The receipts of these serial numbers, one bundle row each.
RECURSIVE BatchSerialLedgerFrom(_, _, _)
BatchSerialLedgerFrom(item, srows, i) ==
    IF i > Len(srows) THEN <<>>
    ELSE << [BatchSLE(item, srows[i].warehouse, srows[i].storage,
                      srows[i].batch_no, 1)
                EXCEPT !.serial_no = SerialNames[i]] >>
             \o BatchSerialLedgerFrom(item, srows, i + 1)

\* tabBatch of a call: both batches enabled, B2 with or without expiry date.
StockBatchTables ==
    { [b \in {"B1", "B2"} |->
          IF b = "B1" THEN BatchRow(1, NoDate, 0) ELSE BatchRow(2, e2, 0)]
      : e2 \in {NoDate, 5} }

\* work_order and purpose of a call: line 633 tests both.
StockContexts ==
    { <<None, MTM>>, <<"WO-1", MTM>>, <<"WO-1", "Material Issue">> }

InitStock ==
    /\ fn = "stock"
    /\ pc = "call"
    /\ warehouse_groups = <<>>
    /\ gi = 0
    /\ storage_locations = <<>>
    /\ storage_idx = 0
    /\ remaining_in_storage = 0
    /\ ri = 0
    /\ qty_needed = 0
    /\ allocations = <<>>
    /\ allocated_storage = None
    /\ result = <<>>
    /\ ranker = None /\ arg_item = None /\ arg_qty = 0
    /\ arg_warehouse = None
    /\ default_wip_storage = None
    /\ EntryIdle
    /\ priority_warehouses = <<>>
    /\ exclude_warehouses = None
    /\ data = <<>> /\ ranked = <<>> /\ reranked = <<>>
    /\ db = "mariadb"
    /\ based_on \in Policies
    /\ \E ctx \in StockContexts :
          /\ work_order = ctx[1]
          /\ purpose = ctx[2]
    /\ \E item \in {"P", "B", "S", "BS"} :
          /\ locations \in SeqsUpTo(StockRowUniverse(item), MaxRows)
          /\ wo_items = IF work_order = None THEN <<>> ELSE WorkOrderItems(item)
          /\ CASE item = "P" ->
                    /\ sle \in SeqsUpTo(StockPlainUniverse, MaxSLE)
                    /\ batches = <<>> /\ serial_nos = <<>>
               [] item = "B" ->
                    /\ sle \in SeqsUpTo(StockBatchUniverse, MaxSLE)
                    /\ batches \in StockBatchTables
                    /\ serial_nos = <<>>
               [] item = "S" ->
                    /\ \E srows \in SeqsUpTo(StockSerialUniverse, MaxSerials) :
                          /\ serial_nos = SerialTable("S", srows)
                          /\ sle = SerialLedger("S", srows)
                    /\ batches = <<>>
               [] item = "BS" ->
                    /\ \E srows \in SeqsUpTo(BatchSerialUniverse, MaxSerials) :
                          /\ serial_nos = SerialTable("BS", srows)
                          /\ sle = BatchSerialLedgerFrom("BS", srows, 1)
                    /\ batches \in {t \in StockBatchTables :
                                        t["B2"].expiry_date = NoDate}

NextStock ==
    \/ StockEnter
    \/ StockRejectRow
    \/ StockBatchRow
    \/ StockSerialRow
    \/ StockPlainRow
    \/ StockReturn

SpecStock == InitStock /\ [][NextStock]_vars

SpecAlloc == (InitPick \/ InitStock) /\ [][NextPick \/ NextStock]_vars

-----------------------------------------------------------------------------
(* Properties of get_available_stock_for_items and of the outcomes.        *)

\* The allocations an outcome of get_available_stock_for_items reports.
StockAllocsOf(o) ==
    IF "qty_allocated" \in DOMAIN o
    THEN << [warehouse |-> o.warehouse, storage |-> o.storage,
             batch_no |-> o.batch_no, serial_nos |-> o.serial_nos,
             qty |-> o.qty_allocated, available_qty |-> o.available_qty] >>
             \o o.additional_allocations
    ELSE <<>>

RECURSIVE AllStockAllocs(_)
AllStockAllocs(res) ==
    IF res = <<>> THEN <<>>
    ELSE StockAllocsOf(Head(res)) \o AllStockAllocs(Tail(res))

\* What the allocations draw from the candidate of allocation c.
RECURSIVE StockDrawn(_, _)
StockDrawn(allocs, c) ==
    IF allocs = <<>> THEN 0
    ELSE (IF /\ Head(allocs).warehouse = c.warehouse
             /\ Head(allocs).storage = c.storage
             /\ Head(allocs).batch_no = c.batch_no
          THEN Head(allocs).qty ELSE 0) + StockDrawn(Tail(allocs), c)

RECURSIVE SerialsIn(_)
SerialsIn(allocs) ==
    IF allocs = <<>> THEN {}
    ELSE Range(SerialNosOf(Head(allocs))) \cup SerialsIn(Tail(allocs))

\* C1: when get_available_stock_for_items returns, what all the rows
\* together were allocated from one candidate (warehouse, storage, batch) is
\* at most the available quantity of that candidate, and no serial number is
\* in the outcomes of two rows.
C1_NoStockCountedTwice ==
    (fn = "stock" /\ pc = "done") =>
        /\ \A k \in DOMAIN AllStockAllocs(result) :
               StockDrawn(AllStockAllocs(result), AllStockAllocs(result)[k])
                   <= AllStockAllocs(result)[k].available_qty
        /\ \A i, j \in DOMAIN result :
               i # j => SerialsIn(StockAllocsOf(result[i]))
                            \cap SerialsIn(StockAllocsOf(result[j])) = {}

\* The position of the candidate of an allocation in the list walked.
PickPos(a) ==
    { p \in DOMAIN storage_locations :
        storage_locations[p].storage = a.storage }

StockPos(a) ==
    { p \in DOMAIN ranked :
        /\ ranked[p].warehouse = a.warehouse
        /\ ranked[p].storage = a.storage
        /\ a.batch_no # None => ranked[p].batch_no = a.batch_no }

\* C7: in the outcome of a row the primary location and quantity are the
\* first allocation recorded for the row and additional_allocations are the
\* remaining ones, in the order the candidates were walked; in every outcome
\* that has a split flag the flag is true exactly if additional_allocations
\* is not empty.
C7_PrimaryThenAdditional ==
    /\ \A k \in DOMAIN result :
          /\ "split" \in DOMAIN result[k] =>
                 (result[k].split <=> result[k].additional_allocations # <<>>)
          /\ "has_split" \in DOMAIN result[k] =>
                 (result[k].has_split <=>
                      result[k].additional_allocations # <<>>)
    /\ (fn = "pick" /\ pc = "row" /\ ri > 0 /\ allocations # <<>>) =>
          LET o == result[Len(result)]
          IN /\ o.storage = allocations[1].storage
             /\ o.qty = allocations[1].qty
             /\ o.additional_allocations = Tail(allocations)
             /\ \A i \in DOMAIN allocations : PickPos(allocations[i]) # {}
             /\ \A i, j \in DOMAIN allocations :
                    i < j => MinOf(PickPos(allocations[i]))
                                 < MinOf(PickPos(allocations[j]))
    /\ (fn = "stock" /\ pc = "items" /\ ri > 0
            /\ ~StockRejectsRow(locations[ri]) /\ allocations # <<>>) =>
          LET o == result[ri]
          IN /\ "has_split" \in DOMAIN o
             /\ o.warehouse = allocations[1].warehouse
             /\ o.storage = allocations[1].storage
             /\ o.batch_no = allocations[1].batch_no
             /\ o.serial_nos = SerialNosOf(allocations[1])
             /\ o.qty_allocated = allocations[1].qty
             /\ o.available_qty = allocations[1].available_qty
             /\ o.additional_allocations = Tail(allocations)
             /\ \A i \in DOMAIN allocations : StockPos(allocations[i]) # {}
             /\ \A i, j \in DOMAIN allocations :
                    i < j => MinOf(StockPos(allocations[i]))
                                 < MinOf(StockPos(allocations[j]))

\* Candidates [5, 5] and one row requesting 7: primary 5 from the first,
\* one additional allocation of 2 from the second, split.
C7_Witness ==
    /\ fn = "pick" /\ pc = "row" /\ ri = 1
    /\ locations = <<Row("I1", "W1", 7)>>
    /\ Len(storage_locations) = 2
    /\ storage_locations[1].storage = "S1"
    /\ storage_locations[1].available_qty = 5
    /\ storage_locations[2].storage = "S2"
    /\ storage_locations[2].available_qty = 5
    /\ result = << [idx |-> 0, storage |-> "S1", qty |-> 5, split |-> TRUE,
                    additional_allocations |->
                        <<[storage |-> "S2", qty |-> 2]>>] >>

-----------------------------------------------------------------------------
(* Further properties of the candidate functions.                          *)

\* C11: under 'Expiry' and without priority warehouses the list of
\* _get_available_batches_for_item holds only batches that are not disabled
\* and are unexpired or without expiry date, in ascending order of expiry
\* date, every candidate without expiry date after every candidate with one.
C11_ExpiryOrderIndefiniteLast ==
    (ranker = "batch" /\ based_on = "Expiry" /\ pc \in {"ranked", "done"}
        /\ priority_warehouses = <<>>) =>
        /\ \A i \in DOMAIN ranked :
               /\ batches[ranked[i].batch_no].disabled = 0
               /\ \/ batches[ranked[i].batch_no].expiry_date = NoDate
                  \/ batches[ranked[i].batch_no].expiry_date >= Today
        /\ \A i, j \in DOMAIN ranked :
               i < j =>
                   LET ei == batches[ranked[i].batch_no].expiry_date
                       ej == batches[ranked[j].batch_no].expiry_date
                   IN \/ ej = NoDate
                      \/ (ei # NoDate /\ ei <= ej)

\* C12: for a plain item and for a serial item the policy 'Expiry' is
\* ignored: the list returned under 'Expiry' is the creation-ascending list
\* that 'FIFO' returns on the same snapshot.
C12_ExpiryIgnored ==
    (based_on = "Expiry" /\ pc \in {"ranked", "done"}) =>
        /\ ranker = "other" =>
               ranked = get_available_stock_for_other_item(
                            arg_item, None, "FIFO", priority_warehouses,
                            exclude_warehouses)
        /\ ranker = "serial" =>
               ranked \in get_available_serial_nos_for_item(
                              arg_item, None, arg_qty, "FIFO",
                              priority_warehouses, exclude_warehouses)

-----------------------------------------------------------------------------
(* Further properties of get_available_stock_for_items.                    *)

RECURSIVE SumOutside(_, _, _)
SumOutside(item_code, whs, W) ==
    IF whs = {} THEN 0
    ELSE LET wh == CHOOSE x \in whs : TRUE
         IN (IF wh = W THEN 0 ELSE CandidateTotal(item_code, wh))
                + SumOutside(item_code, whs \ {wh}, W)

\* What the ledger and the serial number table hold of the item outside the
\* warehouse W: the quantity in batches that can be used, the serial numbers
\* in a warehouse, the positive balances of the storages.
StockOutside(item_code, W) ==
    IF ItemDetails(item_code).has_batch_no = 1
    THEN SumActualQty({ i \in DOMAIN sle :
                          /\ sle[i].item_code = item_code
                          /\ sle[i].warehouse # W
                          /\ sle[i].is_cancelled = 0
                          /\ sle[i].bundle # <<>>
                          /\ batches[sle[i].bundle[1].batch_no].disabled = 0
                          /\ \/ batches[sle[i].bundle[1].batch_no].expiry_date
                                    = NoDate
                             \/ batches[sle[i].bundle[1].batch_no].expiry_date
                                    >= Today })
    ELSE IF ItemDetails(item_code).has_serial_no = 1
    THEN Cardinality({ k \in DOMAIN serial_nos :
                         /\ serial_nos[k].item_code = item_code
                         /\ serial_nos[k].warehouse \notin {None, W} })
    ELSE SumOutside(item_code, {sle[i].warehouse : i \in DOMAIN sle}, W)

\* C13: once the WIP warehouse is excluded (work order given, purpose
\* Material Transfer for Manufacture), no primary and no additional
\* allocation of any row is in it, and every row is allocated what it
\* requires as far as the stock outside the WIP warehouse reaches: the stock
\* inside it takes nothing away.
C13_WipExcluded ==
    (fn = "stock" /\ exclude_warehouses # None) =>
        /\ \A k \in DOMAIN AllStockAllocs(result) :
               AllStockAllocs(result)[k].warehouse # exclude_warehouses
        /\ \A k \in DOMAIN result :
               ~StockRejectsRow(locations[k]) =>
                   QtyIn(StockAllocsOf(result[k]))
                       = Min2(RequiredQty(locations[k]),
                              StockOutside(locations[k].item_code,
                                           exclude_warehouses))

\* The oldest stock is in the WIP warehouse and a row is allocated from
\* another warehouse.
C13_Witness ==
    /\ fn = "stock" /\ pc = "done"
    /\ exclude_warehouses = "W3"
    /\ Len(sle) = 2
    /\ sle[1].warehouse = "W3"
    /\ sle[2].warehouse # "W3"
    /\ Len(result) = 1
    /\ "qty_allocated" \in DOMAIN result[1]
    /\ result[1].warehouse = sle[2].warehouse
    /\ result[1].qty_allocated > 0

\* The batch the Serial No table records for a serial number.
BatchOfSerial(serial_no) ==
    serial_nos[CHOOSE k \in DOMAIN serial_nos :
                   serial_nos[k].name = serial_no].batch_no

\* C14: batch tracking takes precedence.  Every allocation of an item with
\* batches carries a batch_no; when the item also has serial numbers, the
\* serial numbers attached to an allocation are of that batch and at most as
\* many as the quantity taken; without serial numbers none is attached.  An
\* allocation of an item without batches has batch_no None, and for a plain
\* item an empty serial_nos.
C14_Dispatch ==
    fn = "stock" =>
        \A k \in DOMAIN result :
            LET allocs == StockAllocsOf(result[k])
                details == ItemDetails(locations[k].item_code)
            IN \A i \in DOMAIN allocs :
                   /\ result[k].has_batch_no = details.has_batch_no
                   /\ result[k].has_serial_no = details.has_serial_no
                   /\ IF details.has_batch_no = 1
                      THEN /\ allocs[i].batch_no # None
                           /\ allocs[i].batch_no \in DOMAIN batches
                           /\ Len(SerialNosOf(allocs[i])) <= allocs[i].qty
                           /\ \A n \in DOMAIN SerialNosOf(allocs[i]) :
                                  /\ details.has_serial_no = 1
                                  /\ BatchOfSerial(SerialNosOf(allocs[i])[n])
                                         = allocs[i].batch_no
                      ELSE /\ allocs[i].batch_no = None
                           /\ details.has_serial_no = 0 =>
                                  allocs[i].serial_nos = <<>>

\* A row of the item with batches and serial numbers is split over two
\* batches, a serial number attached to each allocation.
C14_Witness ==
    /\ fn = "stock" /\ pc = "done"
    /\ Len(result) = 1
    /\ "has_split" \in DOMAIN result[1]
    /\ result[1].has_batch_no = 1 /\ result[1].has_serial_no = 1
    /\ result[1].has_split
    /\ result[1].serial_nos # <<>>
    /\ result[1].additional_allocations[1].serial_nos # <<>>
    /\ result[1].additional_allocations[1].batch_no # result[1].batch_no

-----------------------------------------------------------------------------
(* Properties of _get_available_serial_nos_for_item.                       *)

\* The rows of tabSerial No the call can return.
EligibleSerials ==
    { k \in DOMAIN serial_nos :
        /\ serial_nos[k].item_code = arg_item
        /\ serial_nos[k].warehouse # None
        /\ exclude_warehouses # None =>
               serial_nos[k].warehouse # exclude_warehouses }

\* The row of tabSerial No behind the i-th unit returned.
UnitAt(i) ==
    CHOOSE k \in DOMAIN serial_nos : serial_nos[k].name = ranked[i].serial_no

InPriority(k) == serial_nos[k].warehouse \in Range(priority_warehouses)

\* C15: with n = required_qty > 0 the function returns the first n units of
\* the stable priority partition of the full policy-ordered list: n units (or
\* all there are), the units of priority warehouses first, each part in policy
\* order, and a unit is left out only if no returned unit of its part comes
\* after it and no unit outside the priority warehouses was returned in its
\* place.  Without priority warehouses these are the first n units of the
\* policy order.
C15_FullFetchReorderLimit ==
    (ranker = "serial" /\ pc \in {"ranked", "done"} /\ arg_qty > 0) =>
        /\ Len(ranked) = Min2(arg_qty, Cardinality(EligibleSerials))
        /\ \A i \in DOMAIN ranked :
               /\ ranked[i].serial_no \in
                      {serial_nos[k].name : k \in EligibleSerials}
               /\ ranked[i].warehouse = serial_nos[UnitAt(i)].warehouse
        /\ \A i, j \in DOMAIN ranked :
               i < j =>
                   /\ ranked[i].serial_no # ranked[j].serial_no
                   /\ InPriority(UnitAt(j)) => InPriority(UnitAt(i))
                   /\ InPriority(UnitAt(i)) = InPriority(UnitAt(j)) =>
                          ~KeyLess(SerialKey(UnitAt(j), based_on),
                                   SerialKey(UnitAt(i), based_on))
        /\ \A u \in EligibleSerials :
               (\A i \in DOMAIN ranked : UnitAt(i) # u) =>
                   \A i \in DOMAIN ranked :
                       /\ InPriority(u) => InPriority(UnitAt(i))
                       /\ InPriority(u) = InPriority(UnitAt(i)) =>
                              ~KeyLess(SerialKey(u, based_on),
                                       SerialKey(UnitAt(i), based_on))

\* One unit is required; the older unit is outside the priority warehouse W2
\* and the newer one in it is returned.
C15_Witness ==
    /\ ranker = "serial" /\ pc = "ranked"
    /\ based_on = "FIFO"
    /\ arg_qty = 1
    /\ priority_warehouses = <<"W2">>
    /\ Len(serial_nos) = 2
    /\ serial_nos[1].warehouse = "W1"
    /\ serial_nos[2].warehouse = "W2"
    /\ Len(ranked) = 1
    /\ ranked[1].serial_no = "SN2"

-----------------------------------------------------------------------------
(* get_available_storage_locations called on its own (it is whitelisted).  *)

\* The quantities a caller asks for.
RequiredQtys == {-3, 0, 4, 7, 12}

GetLocations ==
    /\ fn = "locations" /\ pc = "call"
    /\ storage_locations' =
           get_available_storage_locations(arg_item, arg_warehouse, arg_qty)
    /\ pc' = "done"
    /\ UNCHANGED <<inputVars, warehouse_groups, gi, storage_idx,
                   remaining_in_storage, ri, qty_needed, allocations,
                   allocated_storage, result>>

InitLocations ==
    /\ sle \in Ledgers
    /\ fn = "locations"
    /\ pc = "call"
    /\ work_order = None
    /\ locations = <<>>
    /\ warehouse_groups = <<>>
    /\ gi = 0
    /\ storage_locations = <<>>
    /\ storage_idx = 0
    /\ remaining_in_storage = 0
    /\ ri = 0
    /\ qty_needed = 0
    /\ allocations = <<>>
    /\ allocated_storage = None
    /\ result = <<>>
    /\ db = "mariadb" /\ batches = <<>> /\ serial_nos = <<>>
    /\ based_on = "FIFO" /\ ranker = None
    /\ priority_warehouses = <<>> /\ exclude_warehouses = None
    /\ data = <<>> /\ ranked = <<>> /\ reranked = <<>>
    /\ purpose = None /\ wo_items = <<>>
    /\ default_wip_storage = None
    /\ EntryIdle
    /\ arg_item \in Items \cup {None}
    /\ arg_warehouse \in Warehouses \cup {None}
    /\ arg_qty \in RequiredQtys

NextLocations == GetLocations

SpecLocations == InitLocations /\ [][NextLocations]_vars

\* The quantity to pick of the first n entries together.
RECURSIVE PickedBefore(_, _)
PickedBefore(locs, n) ==
    IF n = 0 THEN 0 ELSE locs[n].qty_to_pick + PickedBefore(locs, n - 1)

\* C16: get_available_storage_locations returns nothing when item or
\* warehouse is missing or nothing is required.  Otherwise it returns, oldest
\* first, a prefix of the storages of positive balance: each entry with its
\* balance and with qty_to_pick = min(balance, quantity still required) > 0,
\* every entry but the last taken whole, the quantities to pick summing to
\* min(required, total available).
C16_ShortestFifoPrefix ==
    (fn = "locations" /\ pc = "done") =>
        IF arg_item = None \/ arg_warehouse = None \/ arg_qty <= 0
        THEN storage_locations = <<>>
        ELSE LET locs == storage_locations
                 at(st) == [warehouse |-> arg_warehouse, storage |-> st]
                 listed == {locs[i].storage : i \in DOMAIN locs}
             IN /\ \A i \in DOMAIN locs :
                       /\ locs[i].storage # None
                       /\ locs[i].available_qty
                              = Balance(arg_item, arg_warehouse, locs[i].storage)
                       /\ locs[i].available_qty > 0
                       /\ locs[i].qty_to_pick
                              = Min2(locs[i].available_qty,
                                     arg_qty - PickedBefore(locs, i - 1))
                       /\ locs[i].qty_to_pick > 0
                       /\ i < Len(locs) =>
                              locs[i].qty_to_pick = locs[i].available_qty
                /\ \A i, j \in DOMAIN locs :
                       i < j =>
                           KeyLess(PlainKey(arg_item, at(locs[i].storage)),
                                   PlainKey(arg_item, at(locs[j].storage)))
                /\ \A st \in Storages \ listed :
                       Balance(arg_item, arg_warehouse, st) > 0 =>
                           /\ PickedBefore(locs, Len(locs)) = arg_qty
                           /\ \A i \in DOMAIN locs :
                                  KeyLess(PlainKey(arg_item, at(locs[i].storage)),
                                          PlainKey(arg_item, at(st)))
                /\ PickedBefore(locs, Len(locs))
                       = Min2(arg_qty, CandidateTotal(arg_item, arg_warehouse))

\* 7 required of two storages of 5: all of the older one, 2 of the other.
C16_Witness ==
    /\ fn = "locations" /\ pc = "done"
    /\ arg_qty = 7
    /\ storage_locations =
           << [storage |-> "S2", available_qty |-> 5, qty_to_pick |-> 5],
              [storage |-> "S1", available_qty |-> 5, qty_to_pick |-> 2] >>

-----------------------------------------------------------------------------
(* get_default_storage_for_item (delivery_note_storage.py, lines 33-105).  *)

\* _get_excluded_storages (lines 13-30).
get_excluded_storages ==
    IF default_wip_storage # None THEN {default_wip_storage} ELSE {}

\* The WHERE clause without its exclusion_clause.
DefaultQueryRowsNoExclude(item_code, warehouse) ==
    StorageQueryRows(item_code, warehouse)

\* The WHERE clause of both queries.
DefaultQueryRows(item_code, warehouse) ==
    { i \in StorageQueryRows(item_code, warehouse) :
        sle[i].storage \notin get_excluded_storages }

\* Lines 63-83: the first storage with stock, oldest first.
StorageWithStock(item_code, warehouse) ==
    LET I == DefaultQueryRows(item_code, warehouse)
        R == {GroupRow(I, st) : st \in {sle[i].storage : i \in I}}
    IN FirstN(OrderByKey({r \in R : r.available_qty > 0}), 1)

\* Lines 86-100: the latest ledger entry.
LastStorage(item_code, warehouse) ==
    LET I == DefaultQueryRows(item_code, warehouse)
        K(i) == <<sle[i].posting_date, sle[i].posting_time, i>>
    IN IF I = {} THEN <<>>
       ELSE << sle[CHOOSE i \in I :
                       \A j \in I : j = i \/ KeyLess(K(j), K(i))] >>

get_default_storage_for_item(item_code, warehouse) ==
    IF item_code = None \/ warehouse = None THEN None
    ELSE IF StorageWithStock(item_code, warehouse) # <<>>
    THEN StorageWithStock(item_code, warehouse)[1].storage
    ELSE IF LastStorage(item_code, warehouse) # <<>>
    THEN LastStorage(item_code, warehouse)[1].storage
    ELSE None

GetDefaultStorage ==
    /\ fn = "default_storage" /\ pc = "call"
    /\ result' = get_default_storage_for_item(arg_item, arg_warehouse)
    /\ pc' = "done"
    /\ UNCHANGED <<inputVars, warehouse_groups, gi, cursorVars>>

InitDefault ==
    /\ sle \in Ledgers
    /\ fn = "default_storage"
    /\ pc = "call"
    /\ work_order = None
    /\ locations = <<>>
    /\ warehouse_groups = <<>>
    /\ gi = 0
    /\ storage_locations = <<>>
    /\ storage_idx = 0
    /\ remaining_in_storage = 0
    /\ ri = 0
    /\ qty_needed = 0
    /\ allocations = <<>>
    /\ allocated_storage = None
    /\ result = None
    /\ db = "mariadb" /\ batches = <<>> /\ serial_nos = <<>>
    /\ based_on = "FIFO" /\ ranker = None
    /\ priority_warehouses = <<>> /\ exclude_warehouses = None
    /\ data = <<>> /\ ranked = <<>> /\ reranked = <<>>
    /\ purpose = None /\ wo_items = <<>>
    /\ arg_qty = 0
    /\ arg_item \in Items \cup {None}
    /\ arg_warehouse \in Warehouses \cup {None}
    /\ default_wip_storage \in Storages \cup {None}
    /\ EntryIdle

NextDefault == GetDefaultStorage

SpecDefault == InitDefault /\ [][NextDefault]_vars

\* C17: get_default_storage_for_item returns None when item or warehouse is
\* missing and never the default WIP storage.  Otherwise it returns the
\* oldest storage of positive balance among the others if there is one, else
\* the storage of the latest entry of the others that is not cancelled, else
\* None.
C17_DefaultStorage ==
    (fn = "default_storage" /\ pc = "done") =>
        IF arg_item = None \/ arg_warehouse = None THEN result = None
        ELSE LET at(st) == [warehouse |-> arg_warehouse, storage |-> st]
                 others == Storages \ {default_wip_storage}
                 stocked == { st \in others :
                                Balance(arg_item, arg_warehouse, st) > 0 }
                 entries == { i \in DOMAIN sle :
                                /\ sle[i].item_code = arg_item
                                /\ sle[i].warehouse = arg_warehouse
                                /\ sle[i].storage \in others
                                /\ sle[i].is_cancelled = 0 }
                 K(i) == <<sle[i].posting_date, sle[i].posting_time, i>>
             IN /\ result # None => result # default_wip_storage
                /\ stocked # {} =>
                       /\ result \in stocked
                       /\ \A st \in stocked \ {result} :
                              KeyLess(PlainKey(arg_item, at(result)),
                                      PlainKey(arg_item, at(st)))
                /\ (stocked = {} /\ entries # {}) =>
                       \E i \in entries :
                           /\ result = sle[i].storage
                           /\ \A j \in entries \ {i} : KeyLess(K(j), K(i))
                /\ (stocked = {} /\ entries = {}) => result = None

\* The oldest storage with stock is the default WIP storage: the next one is
\* returned.
C17_Witness ==
    /\ fn = "default_storage" /\ pc = "done"
    /\ default_wip_storage = "S1"
    /\ Len(sle) = 2
    /\ sle[1].storage = "S1" /\ sle[1].actual_qty = 5 /\ sle[1].is_cancelled = 0
    /\ sle[1].warehouse = arg_warehouse
    /\ sle[2].storage = "S2" /\ sle[2].warehouse = arg_warehouse
    /\ arg_item = "I1"
    /\ result = "S2"

-----------------------------------------------------------------------------
(* The cursor of allocate_storage_for_pick_list.                           *)

\* What the rows of the group being walked have drawn from a storage so far.
DrawnByGroup(st) ==
    DrawnIn(GroupAllocs(result, IdxsOf(Group)), st)
        + DrawnIn(InProgress(gi + 1), st)

\* The cursor is inside a group.
Walking == fn = "pick" /\ pc \in {"row", "while"}

CursorInRange ==
    Walking =>
        /\ storage_idx \in 0..Len(storage_locations)
        /\ remaining_in_storage >= 0
        /\ IF storage_idx < Len(storage_locations)
           THEN remaining_in_storage
                    <= storage_locations[storage_idx + 1].qty_to_pick
           ELSE remaining_in_storage = 0

NothingLeftBehind ==
    Walking =>
        \A p \in DOMAIN storage_locations :
            LET c == storage_locations[p]
            IN /\ p <= storage_idx =>
                      /\ DrawnByGroup(c.storage) = c.qty_to_pick
                      /\ AllPositive(Group.rows) =>
                             DrawnByGroup(c.storage) = c.available_qty
               /\ p = storage_idx + 1 =>
                      DrawnByGroup(c.storage)
                          = c.qty_to_pick - remaining_in_storage
               /\ p > storage_idx + 1 => DrawnByGroup(c.storage) = 0

-----------------------------------------------------------------------------
(* The two grouped allocators compared.                                    *)

\* What the first n rows of a group require together.
RECURSIVE RequiredBefore(_, _)
RequiredBefore(rows, n) ==
    IF n = 0 THEN 0 ELSE rows[n].qty + RequiredBefore(rows, n - 1)

\* The first storage of the candidate list that still holds something once
\* offset units were taken from the front (None if there is none).
FirstDrawn(locs, offset) ==
    LET open == {p \in DOMAIN locs : PickedBefore(locs, p) > offset}
    IN IF open = {} THEN None ELSE locs[MinOf(open)].storage

\* C19: in both grouped allocators, for a group whose rows all have a
\* positive quantity, the storage reported for a row is the first storage the
\* row draws from: the one the cursor stands at once the rows before it are
\* served, also when the row is split.  So get_storage_for_work_order_items
\* reports the primary storage of allocate_storage_for_pick_list.
C19_SameWalk ==
    (fn \in {"pick", "wo"} /\ pc = "row" /\ ri > 0
        /\ AllPositive(Group.rows)) =>
        result[Len(result)].storage
            = FirstDrawn(storage_locations,
                         RequiredBefore(Group.rows, ri - 1))

-----------------------------------------------------------------------------
(* The grouped allocators on item codes and warehouses that contain the    *)
(* separator of the group key.                                             *)

KeyRowUniverse ==
    { Row("A|||B", "C", 4), Row("A", "B|||C", 4), Row("A", "B|||C", 7),
      Row("A", "C", 4) }

KeySLEUniverse ==
    { SLE("A|||B", "C", "S1", 5, 2, 0),
      SLE("A", "B|||C", "S2", 5, 2, 0),
      SLE("A", "C", "S1", 5, 2, 0) }

InitIsolation ==
    /\ RankIdle
    /\ sle \in SeqsUpTo(KeySLEUniverse, MaxSLE)
    /\ fn \in {"pick", "wo"}
    /\ work_order = IF fn = "wo" THEN "WO-1" ELSE None
    /\ locations \in SeqsUpTo(KeyRowUniverse, MaxRows)
    /\ pc = "call"
    /\ warehouse_groups = <<>>
    /\ gi = 0
    /\ storage_locations = <<>>
    /\ storage_idx = 0
    /\ remaining_in_storage = 0
    /\ ri = 0
    /\ qty_needed = 0
    /\ allocations = <<>>
    /\ allocated_storage = None
    /\ result = <<>>

SpecIsolation == InitIsolation /\ [][NextPick \/ NextWO]_vars

\* The row is rejected before grouping.
SkipsRow(row) == IF fn = "pick" THEN PickSkipsRow(row) ELSE WOSkipsRow(row)

\* The rows at positions a and b of the input are in one group.
SameGroup(a, b) ==
    \E g \in DOMAIN warehouse_groups :
        {a - 1, b - 1} \subseteq IdxsOf(warehouse_groups[g])

\* C20: in both grouped allocators two rows are in one group, and so share a
\* candidate list and cursor, exactly if they have the same item_code and the
\* same warehouse, whatever characters these contain; and the storage
\* reported for a row holds stock of the row's own item and warehouse.
C20_GroupIsolation ==
    (fn \in {"pick", "wo"} /\ pc # "call" /\ (fn = "wo" => work_order # None)) =>
        /\ \A a, b \in DOMAIN locations :
               (~SkipsRow(locations[a]) /\ ~SkipsRow(locations[b])) =>
                   (SameGroup(a, b) <=>
                        /\ locations[a].item_code = locations[b].item_code
                        /\ locations[a].warehouse = locations[b].warehouse)
        /\ \A k \in DOMAIN result :
               result[k].storage # None =>
                   Balance(locations[result[k].idx + 1].item_code,
                           locations[result[k].idx + 1].warehouse,
                           result[k].storage) > 0

-----------------------------------------------------------------------------
(* Serial numbers and quantity of an allocation.                           *)

\* The serial numbers tabSerial No has of the item in the batch and warehouse.
SerialUnitsIn(item_code, batch_no, warehouse) ==
    Cardinality({ i \in DOMAIN serial_nos :
                    /\ serial_nos[i].item_code = item_code
                    /\ serial_nos[i].batch_no = batch_no
                    /\ serial_nos[i].warehouse = warehouse })

\* The allocation is of a serial-only item, or its batch has as many serial
\* numbers in its warehouse as the allocation takes.
EnoughSerials(item_code, a) ==
    \/ a.batch_no = None
    \/ SerialUnitsIn(item_code, a.batch_no, a.warehouse) >= a.qty

\* The allocation lists one serial number per unit, each once.
OneSerialPerUnit(a) ==
    /\ Len(SerialNosOf(a)) = a.qty
    /\ Cardinality(Range(SerialNosOf(a))) = Len(SerialNosOf(a))

\* C21: for an item with serial numbers every allocation of
\* get_available_stock_for_items lists exactly as many serial numbers as the
\* quantity it allocates and no serial number is twice in the allocations of
\* one row: always for a serial-only item, and for an item with batches when
\* the batch has that many serial numbers in the allocation's warehouse.
C21_SerialCountMatchesQty ==
    (fn = "stock") =>
        \A k \in DOMAIN result :
            LET item_code == locations[result[k].idx + 1].item_code
                allocs == StockAllocsOf(result[k])
            IN ItemDetails(item_code).has_serial_no = 1 =>
                   \A i \in DOMAIN allocs :
                       EnoughSerials(item_code, allocs[i]) =>
                           /\ OneSerialPerUnit(allocs[i])
                           /\ \A j \in DOMAIN allocs :
                                  (j # i /\ EnoughSerials(item_code, allocs[j])) =>
                                      Range(SerialNosOf(allocs[i]))
                                          \cap Range(SerialNosOf(allocs[j])) = {}

-----------------------------------------------------------------------------
(* Stock Entry validation (doctype_events/stock_entry.py).                 *)

\* "not x" on a string field: None and '' are falsy.
Blank(x) == x = None \/ x = ""

\* A Stock Entry Detail row.
EntryItem(st, to_st, s_wh, t_wh, fin) ==
    [item_code |-> "I1", qty |-> 2, transfer_qty |-> 2,
     s_warehouse |-> s_wh, t_warehouse |-> t_wh,
     storage |-> st, to_storage |-> to_st, is_finished_item |-> fin]

\* get_fifo_storage_for_item (lines 10-50): the query of
\* get_available_storage_locations with LIMIT 1.
get_fifo_storage_for_item(item_code, warehouse, required_qty) ==
    IF Blank(item_code) \/ Blank(warehouse) \/ required_qty = 0 THEN None
    ELSE LET storage_data == StorageData(item_code, warehouse)
         IN IF storage_data = <<>> THEN None ELSE storage_data[1].storage

supported_purposes ==
    { "Material Transfer for Manufacture",
      "Material Consumption for Manufacture",
      "Manufacture" }

\* Lines 107-108 and 124-125.
SetTargetFromWip(item) ==
    IF /\ Blank(item.to_storage)
       /\ ~Blank(item.t_warehouse)
       /\ ~Blank(default_wip_storage)
    THEN [item EXCEPT !.to_storage = default_wip_storage]
    ELSE item

\* Lines 99-108: the item at position idx of a Stock Entry made from a Pick
\* List.
SetFromPickList(item, idx) ==
    SetTargetFromWip(
        IF /\ idx < Len(pick_list_items)
           /\ Blank(item.storage)
           /\ ~Blank(pick_list_items[idx + 1].storage)
           /\ ~Blank(item.s_warehouse)
        THEN [item EXCEPT !.storage = pick_list_items[idx + 1].storage]
        ELSE item)

\* Lines 112-125: an item of a Stock Entry made from a Work Order.
SetFromWorkOrder(item) ==
    SetTargetFromWip(
        IF /\ Blank(item.storage)
           /\ ~Blank(item.s_warehouse)
           /\ ~Blank(item.item_code)
        THEN LET storage == get_fifo_storage_for_item(
                                item.item_code, item.s_warehouse,
                                IF item.qty # 0 THEN item.qty
                                ELSE item.transfer_qty)
             IN IF ~Blank(storage) THEN [item EXCEPT !.storage = storage]
                ELSE item
        ELSE item)

\* Lines 131-141 with the tests "not item.storage" and "not item.to_storage"
\* left out.
SetWipOrFgOverwriting(item) ==
    IF item.is_finished_item # 0
    THEN IF ~Blank(item.t_warehouse) /\ ~Blank(default_fg_storage)
         THEN [item EXCEPT !.to_storage = default_fg_storage]
         ELSE item
    ELSE IF ~Blank(item.s_warehouse) /\ ~Blank(default_wip_storage)
         THEN [item EXCEPT !.storage = default_wip_storage]
         ELSE item

\* Lines 131-141: an item of a Material Consumption or Manufacture entry.
SetWipOrFg(item) ==
    IF item.is_finished_item # 0
    THEN IF /\ Blank(item.to_storage)
            /\ ~Blank(item.t_warehouse)
            /\ ~Blank(default_fg_storage)
         THEN [item EXCEPT !.to_storage = default_fg_storage]
         ELSE item
    ELSE IF /\ Blank(item.storage)
            /\ ~Blank(item.s_warehouse)
            /\ ~Blank(default_wip_storage)
         THEN [item EXCEPT !.storage = default_wip_storage]
         ELSE item

\* set_default_storage (lines 59-141): the document it leaves.
set_default_storage(d) ==
    IF d.purpose \notin supported_purposes THEN d
    ELSE IF d.purpose = "Material Transfer for Manufacture"
    THEN IF ~Blank(d.pick_list)
         THEN [d EXCEPT !.items =
                  [k \in DOMAIN d.items |-> SetFromPickList(d.items[k], k - 1)]]
         ELSE IF ~Blank(d.work_order)
         THEN [d EXCEPT !.items =
                  [k \in DOMAIN d.items |-> SetFromWorkOrder(d.items[k])]]
         ELSE d
    ELSE [d EXCEPT !.items =
             [k \in DOMAIN d.items |-> SetWipOrFg(d.items[k])]]

\* Line 155: getdate("2026-01-01"), dates written yyyymmdd.
CutoffDate == 20260101

\* Lines 161-215: the item makes validate_storage_fields throw.
ItemThrows(p, item) ==
    IF p \in {"Repack", "Manufacture"}
    THEN IF item.is_finished_item # 0
         THEN Blank(item.to_storage)
         ELSE Blank(item.storage)
    ELSE \/ p # "Material Receipt" /\ Blank(item.storage)
         \/ p = "Material Receipt" /\ Blank(item.to_storage)
         \/ /\ p \in { "Material Transfer",
                       "Material Transfer for Manufacture",
                       "Disassemble", "Send to Subcontractor" }
            /\ Blank(item.to_storage)

\* validate_storage_fields (lines 144-215): TRUE when it throws.
validate_storage_fields(d) ==
    IF d.posting_date < CutoffDate THEN FALSE
    ELSE IF d.items = <<>> THEN FALSE
    ELSE \E k \in DOMAIN d.items : ItemThrows(d.purpose, d.items[k])

\* Everything validate_stock_entry leaves alone but doc, pc and thrown.
entryFixed == <<sle, fn, work_order, locations, warehouse_groups, gi,
                cursorVars, result, rankVars, purpose, wo_items,
                arg_warehouse, default_wip_storage, default_fg_storage,
                doc_before, pick_list_items>>

\* Line 55.
SetDefaultStorage ==
    /\ fn = "validate_stock_entry" /\ pc = "call"
    /\ doc' = set_default_storage(doc)
    /\ pc' = "validate"
    /\ UNCHANGED <<entryFixed, thrown>>

\* Line 56.
ValidateStorageFields ==
    /\ fn = "validate_stock_entry" /\ pc = "validate"
    /\ thrown' = validate_storage_fields(doc)
    /\ pc' = "done"
    /\ UNCHANGED <<entryFixed, doc>>

MaxItems == 2

Purposes ==
    { "Material Issue", "Material Receipt", "Material Transfer",
      "Material Transfer for Manufacture",
      "Material Consumption for Manufacture", "Manufacture", "Repack",
      "Send to Subcontractor", "Disassemble" }

\* The rows of a Stock Entry: raw and finished items with or without source
\* and target storage, a row with an empty string for storage, rows without
\* source or target warehouse.
EntryItemUniverse ==
    { EntryItem(st, to_st, "W1", "W2", fin)
        : st \in {None, "S1"}, to_st \in {None, "S2"}, fin \in {0, 1} }
    \cup { EntryItem("", None, "W1", "W2", 0),
           EntryItem(None, None, None, "W2", 0),
           EntryItem(None, None, "W1", None, 1),
           EntryItem(None, None, "W1", None, 0) }

\* Where the Stock Entry comes from: nothing, a Pick List (with fewer rows
\* than the entry, or a row without storage) or a Work Order (with or
\* without stock of the item in a storage).
EntryOrigins ==
    { [pick_list |-> None, work_order |-> None, pl_items |-> <<>>,
       ledger |-> <<>>],
      [pick_list |-> "PL-1", work_order |-> None,
       pl_items |-> <<[storage |-> "S2"]>>, ledger |-> <<>>],
      [pick_list |-> "PL-1", work_order |-> "WO-1",
       pl_items |-> <<[storage |-> None], [storage |-> "S2"]>>,
       ledger |-> <<SLE("I1", "W1", "S2", 5, 2, 0)>>],
      [pick_list |-> None, work_order |-> "WO-1", pl_items |-> <<>>,
       ledger |-> <<>>],
      [pick_list |-> None, work_order |-> "WO-1", pl_items |-> <<>>,
       ledger |-> <<SLE("I1", "W1", "S2", 5, 2, 0)>>] }

InitEntry ==
    /\ db = "mariadb"
    /\ batches = <<>>
    /\ serial_nos = <<>>
    /\ based_on = "FIFO"
    /\ ranker = None
    /\ arg_item = None
    /\ arg_qty = 0
    /\ priority_warehouses = <<>>
    /\ exclude_warehouses = None
    /\ data = <<>>
    /\ ranked = <<>>
    /\ reranked = <<>>
    /\ purpose = None
    /\ wo_items = <<>>
    /\ arg_warehouse = None
    /\ default_wip_storage \in {None, "WIP-S"}
    /\ default_fg_storage \in {None, "FG-S"}
    /\ fn = "validate_stock_entry"
    /\ pc = "call"
    /\ work_order = None
    /\ locations = <<>>
    /\ warehouse_groups = <<>>
    /\ gi = 0
    /\ storage_locations = <<>>
    /\ storage_idx = 0
    /\ remaining_in_storage = 0
    /\ ri = 0
    /\ qty_needed = 0
    /\ allocations = <<>>
    /\ allocated_storage = None
    /\ result = <<>>
    /\ thrown = FALSE
    /\ \E p \in Purposes, date \in {20251231, 20260101},
          origin \in EntryOrigins,
          its \in SeqsUpTo(EntryItemUniverse, MaxItems) :
          /\ doc = [purpose |-> p, posting_date |-> date,
                    pick_list |-> origin.pick_list,
                    work_order |-> origin.work_order, items |-> its]
          /\ pick_list_items = origin.pl_items
          /\ sle = origin.ledger
    /\ doc_before = doc

NextEntry == SetDefaultStorage \/ ValidateStorageFields

SpecEntry == InitEntry /\ [][NextEntry]_vars


-----------------------------------------------------------------------------
(* Properties of the Stock Entry validation.                               *)

\* The item breaks the rules the docstring of validate_storage_fields states.
BreaksDocumentedRule(p, item) ==
    IF p \in {"Repack", "Manufacture"}
    THEN IF item.is_finished_item # 0
         THEN Blank(item.to_storage)
         ELSE Blank(item.storage)
    ELSE \/ p # "Material Receipt" /\ Blank(item.storage)
         \/ p # "Material Issue" /\ Blank(item.to_storage)

\* C22: validate_storage_fields throws exactly if the posting date is
\* 2026-01-01 or later and some item breaks the documented rules: storage is
\* mandatory unless the purpose is Material Receipt, to_storage unless it is
\* Material Issue, and for Repack and Manufacture to_storage for finished
\* items and storage for the others.  An entry dated earlier or without
\* items never throws.
C22_ThrowsIffRuleBroken ==
    (fn = "validate_stock_entry" /\ pc = "done") =>
        (thrown <=>
            /\ doc.posting_date >= CutoffDate
            /\ \E k \in DOMAIN doc.items :
                   BreaksDocumentedRule(doc.purpose, doc.items[k]))


\* What set_default_storage did to the item at position k.
ItemBefore(k) == doc_before.items[k]

ItemAfter(k) == doc.items[k]

\* A Manufacture entry whose raw items have a source warehouse and whose
\* finished items have a target warehouse.
ManufactureWithWarehouses(d) ==
    /\ d.purpose = "Manufacture"
    /\ \A k \in DOMAIN d.items :
           IF d.items[k].is_finished_item # 0
           THEN ~Blank(d.items[k].t_warehouse)
           ELSE ~Blank(d.items[k].s_warehouse)

\* C23: set_default_storage only fills blanks and runs before the
\* validation.  It leaves a storage or to_storage that is not empty as it
\* is, changes nothing when the purpose is not Material Transfer for
\* Manufacture, Material Consumption for Manufacture or Manufacture, sets no
\* storage on an item without s_warehouse and no to_storage on an item
\* without t_warehouse, and touches no other field; the validation sees the
\* document it leaves, so a Manufacture entry whose raw items have
\* s_warehouse and whose finished items have t_warehouse passes when both
\* default storages are configured.
C23_OnlyFillsBlanks ==
    (fn = "validate_stock_entry") =>
        /\ doc = [doc_before EXCEPT !.items = doc.items]
        /\ DOMAIN doc.items = DOMAIN doc_before.items
        /\ \A k \in DOMAIN doc.items :
               /\ ItemAfter(k) = [ItemBefore(k) EXCEPT
                                     !.storage = ItemAfter(k).storage,
                                     !.to_storage = ItemAfter(k).to_storage]
               /\ ~Blank(ItemBefore(k).storage) =>
                      ItemAfter(k).storage = ItemBefore(k).storage
               /\ ~Blank(ItemBefore(k).to_storage) =>
                      ItemAfter(k).to_storage = ItemBefore(k).to_storage
               /\ Blank(ItemBefore(k).s_warehouse) =>
                      ItemAfter(k).storage = ItemBefore(k).storage
               /\ Blank(ItemBefore(k).t_warehouse) =>
                      ItemAfter(k).to_storage = ItemBefore(k).to_storage
        /\ doc_before.purpose \notin supported_purposes => doc = doc_before
        /\ thrown => pc = "done"
        /\ ( /\ pc = "done"
             /\ ManufactureWithWarehouses(doc_before)
             /\ ~Blank(default_wip_storage)
             /\ ~Blank(default_fg_storage) ) => ~thrown

\* A Manufacture entry dated 2026-01-01 with a raw and a finished item, both
\* without storage, has passed the validation with the default storages
\* filled in, next to a storage that was already set.
C23_Witness ==
    /\ fn = "validate_stock_entry" /\ pc = "done"
    /\ ~thrown
    /\ doc_before.posting_date >= CutoffDate
    /\ ManufactureWithWarehouses(doc_before)
    /\ validate_storage_fields(doc_before)
    /\ Len(doc.items) = 2
    /\ ItemBefore(1).is_finished_item = 0
    /\ ItemBefore(1).storage = None /\ ItemAfter(1).storage = default_wip_storage
    /\ ItemBefore(2).is_finished_item = 1
    /\ ItemBefore(2).to_storage = "S2" /\ ItemAfter(2).to_storage = "S2"
    /\ ItemBefore(2).storage = None /\ ItemAfter(2).storage = None
====
